---- MODULE Spec2Model ----
(***************************************************************************)
(* Behaviour state machine (AnimationController), fixed-timestep update    *)
(* scheduler (GameLoop) and pointer trigger source (HoverDetector, with    *)
(* Utils.getMouseDirection) of the interactive character page.             *)
(*                                                                         *)
(* Strings stand for JavaScript strings, "undefined" and "null" for the    *)
(* JavaScript values of those names.  Wall-clock values are integers.      *)
(***************************************************************************)
EXTENDS Integers, Sequences, FiniteSets, TLC

(***************************************************************************)
(* Bounds of the exploration                                               *)
(***************************************************************************)
MaxCalls == 3           \* calls explored on the controller's public methods
MaxHistoryRun == 12     \* successful transitions explored for the history
MaxEventRun == 3        \* successful transitions explored through DOM events
MaxAdvances == 2        \* advances of the wall clock explored
MaxFrames == 3          \* animation frames explored
MaxFaultFrames == 2     \* animation frames explored with throwing hooks
MaxPending == 1         \* gameLoop callbacks pending at once
MaxCallbacks == 2       \* callbacks registered for one trigger
MaxChains == 2          \* gameLoop callbacks pending at once after a restart
MaxHookFrames == 2      \* animation frames explored with hooks that call setFPS()
MaxDrainFrames == 2     \* animation frames explored one pass of the loop at a time
MaxDrainSteps == 5      \* passes of gameLoop's while loop explored in one tick
MaxLifecycleFrames == 3 \* animation frames explored with start() and stop()
                        \* called at any time
MaxAudioRun == 4        \* successful transitions explored with volume changes
MaxCollaboratorRun == 3 \* successful transitions explored with collaborators
                        \* that throw
MaxMoves == 3           \* pointer and touch moves explored
MaxHoverAdvances == 3   \* half seconds of wall clock explored with the pointer
MaxGrid == 3            \* pointer coordinates explored for the direction, in
                        \* hundreds of pixels

(***************************************************************************)
(* AnimationController: fixed data                                         *)
(***************************************************************************)
maxHistory == 10
DoubleClickWindow == 300

AUDIO_VOLUME == 7       \* CONFIG.GAME.AUDIO_VOLUME = 0.7, in tenths
SleepVolume == 3        \* setMasterVolume(0.3), in tenths

Undefined == "undefined"
Null == "null"

\* the value of an own-less key looked up on an object literal: a function
\* inherited from Object.prototype (here Object itself, for "constructor")
FnObject == "function Object() { [native code] }"
InheritedKeys == {"constructor"}

States ==
    {"idle", "backflip_east", "backflip_west", "crouching",
     "sleeping", "curious", "alert", "excited"}

TriggerVocabulary ==
    {"hover_east", "hover_west", "click", "double_click", "timeout",
     "complete", "interrupt", "satisfied", "scared", "calm", "threat",
     "tired", "all_clear", "wake_up"}

\* the transitions: {...} literal of each state of createStateMachine
idleTransitions ==
    [hover_east |-> "backflip_east", hover_west |-> "backflip_west",
     click |-> "crouching", timeout |-> "sleeping", curious |-> "curious"]

backflipEastTransitions == [complete |-> "idle", interrupt |-> "idle"]

backflipWestTransitions_hoverLeaves ==
    [complete |-> "idle", interrupt |-> "idle", hover_east |-> "backflip_east"]

backflipWestTransitions == [complete |-> "idle", interrupt |-> "idle"]

crouchingTransitions_completeToAlert ==
    [complete |-> "alert", hover |-> "alert", double_click |-> "excited"]

crouchingTransitions ==
    [complete |-> "idle", hover |-> "alert", double_click |-> "excited"]

sleepingTransitions ==
    [hover |-> "idle", click |-> "curious", wake_up |-> "idle"]

curiousTransitions ==
    [satisfied |-> "idle", scared |-> "crouching", excited |-> "backflip_east"]

alertTransitions_detour ==
    [calm |-> "crouching", threat |-> "crouching", all_clear |-> "crouching"]

alertTransitions ==
    [calm |-> "idle", threat |-> "crouching", all_clear |-> "idle"]

excitedTransitions_lockIn == [calm |-> "excited", tired |-> "excited"]

excitedTransitions == [calm |-> "idle", tired |-> "sleeping"]

createStateMachine ==
    [idle |-> idleTransitions,
     backflip_east |-> backflipEastTransitions,
     backflip_west |-> backflipWestTransitions,
     crouching |-> crouchingTransitions,
     sleeping |-> sleepingTransitions,
     curious |-> curiousTransitions,
     alert |-> alertTransitions,
     excited |-> excitedTransitions]

\* every key that occurs in some row of the table
TableTriggers == UNION {DOMAIN createStateMachine[s] : s \in DOMAIN createStateMachine}

\* this.stateMachine[x]: "config" for an own key, the inherited function for
\* a key of Object.prototype, undefined otherwise
stateMachineGet(x) ==
    IF x \in DOMAIN createStateMachine THEN "config"
    ELSE IF x \in InheritedKeys THEN FnObject
    ELSE Undefined

transitionsGet_fallbackIdle(s, t) ==
    IF t \in DOMAIN createStateMachine[s] THEN createStateMachine[s][t]
    ELSE "idle"

\* currentStateConfig.transitions[t] on the row of own state s
transitionsGet(s, t) ==
    IF t \in DOMAIN createStateMachine[s] THEN createStateMachine[s][t]
    ELSE IF t \in InheritedKeys THEN FnObject
    ELSE Undefined

\* state.split('_') for the strings that can reach it
Split(s) ==
    CASE s = "backflip_east" -> <<"backflip", "east">>
      [] s = "backflip_west" -> <<"backflip", "west">>
      [] OTHER -> <<s>>

(***************************************************************************)
(* State                                                                   *)
(***************************************************************************)
VARIABLES
    currentState, previousState, stateHistory, transitionCallbacks,
    masterVolume, currentAnimation, currentDirection,
    lastClickTime,  \* AnimationController.lastClickTime, 0 while undefined
    now,            \* Date.now()
    lastCall,       \* the last call made on the controller and what it did
    allRecords,     \* every record ever pushed on stateHistory, in order
    calls,          \* number of calls made on the public methods
    \* GameLoop
    isRunning, lastTime, accumulator, deltaTime, systems, frameCount, fps,
    lastFpsUpdate,
    supportedFPS,   \* PERFORMANCE_DETECTOR.supportedFPS
    perfNow,        \* performance.now()
    pendingFrames,  \* gameLoop callbacks handed to requestAnimationFrame
    ticks,          \* what the gameLoop calls of the last step did
    totals,         \* sums over all gameLoop calls since construction
    frames,         \* number of animation frames so far
    tickPc,         \* whether a gameLoop call is inside its while loop, and
                    \* the steps that loop has drained
    \* HoverDetector
    hoverEnabled, lastMouseX, lastMouseY, hoverCooldown, movementThreshold,
    lastTriggerTime, \* the lastTriggerTime of setupEventListeners' closure
    backflipDue,    \* when playBackflip's timer fires, 0 while none is set
    moves,          \* number of move events handled
    accepted,       \* the moves that called playBackflip: how many, and the
                    \* time and pointer position of the last one
    classified      \* the last call of getMouseDirection and its result

fsmVars == <<currentState, previousState, stateHistory, transitionCallbacks,
             masterVolume, currentAnimation, currentDirection,
             lastClickTime, now, lastCall, allRecords, calls>>

loopVars == <<isRunning, lastTime, accumulator, deltaTime, systems, frameCount,
              fps, lastFpsUpdate, supportedFPS, perfNow, pendingFrames, ticks,
              totals, frames, tickPc>>

hoverVars == <<moves, hoverEnabled, lastMouseX, lastMouseY, hoverCooldown,
               movementThreshold, lastTriggerTime, backflipDue, accepted,
               classified>>

vars == <<hoverVars, fsmVars, loopVars>>

\* the controller and its collaborators as one value, threaded through the
\* statements of a handler
Machine ==
    [currentState |-> currentState, previousState |-> previousState,
     stateHistory |-> stateHistory, masterVolume |-> masterVolume,
     currentAnimation |-> currentAnimation,
     currentDirection |-> currentDirection,
     lastClickTime |-> lastClickTime,
     pushed |-> allRecords, trace |-> <<>>, result |-> Undefined,
     thrown |-> FALSE,   \* an exception is propagating
     faults |-> {}]      \* the collaborator methods that throw when called

\* an externally visible effect, with the controller state it observes
Event(m, kind, arg) ==
    [kind |-> kind, arg |-> arg, cur |-> m.currentState,
     prev |-> m.previousState, pushed |-> Len(m.pushed)]

Emit(m, kind, arg) == [m EXCEPT !.trace = Append(@, Event(m, kind, arg))]

(***************************************************************************)
(* Collaborators                                                           *)
(***************************************************************************)
clamp(value, min, max) ==
    LET lo == IF value > min THEN value ELSE min
    IN IF lo < max THEN lo ELSE max

\* the call of a collaborator method that throws
Throw(m, method) == [Emit(m, "throw", method) EXCEPT !.thrown = TRUE]

setMasterVolume(m, volume) ==
    IF m.thrown THEN m
    ELSE IF "setMasterVolume" \in m.faults THEN Throw(m, "setMasterVolume")
    ELSE Emit([m EXCEPT !.masterVolume = clamp(volume, 0, 10)],
              "setMasterVolume", volume)

playSound(m, name) ==
    IF m.thrown THEN m
    ELSE IF "playSound" \in m.faults THEN Throw(m, "playSound")
    ELSE Emit(m, "playSound", name)

playAnimationSound(m, animationName) ==
    CASE animationName = "crouch" -> playSound(m, "sfx-click")
      [] animationName = "backflip" -> playSound(m, "sfx-backflip")
      [] animationName = "idle" -> playSound(m, "sfx-scanner")
      [] OTHER -> m

\* CharacterSystem.playAnimation(animationName, direction = 'east')
playAnimation(m, animationName, dirArg) ==
    LET direction == IF dirArg = Undefined THEN "east" ELSE dirArg
        req == Emit(m, "playAnimation", <<animationName, direction>>)
    IN IF m.thrown THEN m
       ELSE IF "playAnimation" \in m.faults THEN Throw(m, "playAnimation")
       ELSE
       IF req.currentAnimation = animationName
          /\ req.currentDirection = direction
       THEN req
       ELSE playAnimationSound(
                [req EXCEPT !.currentAnimation = animationName,
                            !.currentDirection = direction],
                animationName)

(***************************************************************************)
(* AnimationController                                                     *)
(***************************************************************************)
onStateEnter(m, state) ==
    LET e == Emit(m, "onEnter", state)
    IN IF m.thrown THEN m
       ELSE CASE state = "sleeping" -> setMasterVolume(e, SleepVolume)
              [] state = "alert" -> playSound(e, "sfx-glitch")
              [] OTHER -> e

onStateExit_keepVolume(m, state) ==
    IF m.thrown THEN m ELSE Emit(m, "onExit", state)

onStateExit(m, state) ==
    LET e == Emit(m, "onExit", state)
    IN IF m.thrown THEN m
       ELSE CASE state = "sleeping" -> setMasterVolume(e, AUDIO_VOLUME)
              [] OTHER -> e

RECURSIVE transitionToState(_, _, _)

\* the trigger that a callback of the kind nests raises on the controller
NestedTrigger == "complete"

\* the call of the i-th callback: it throws, or calls
\* ANIMATION_CONTROLLER.transitionToState(NestedTrigger), if it is of that
\* kind
CallCallback(m, callbacks, i, newState, transition) ==
    LET called == Emit(m, "callback",
                       <<i, callbacks[i], m.previousState, newState,
                         transition>>)
    IN IF callbacks[i] = "nests"
       THEN transitionToState(called, NestedTrigger, Null)
       ELSE [called EXCEPT !.thrown = callbacks[i] = "throws"]

RECURSIVE RunCallbacks_noCatch(_, _, _, _, _)
RunCallbacks_noCatch(m, callbacks, i, newState, transition) ==
    IF m.thrown \/ i > Len(callbacks) THEN m
    ELSE RunCallbacks_noCatch(
             CallCallback(m, callbacks, i, newState, transition),
             callbacks, i + 1, newState, transition)

\* callbacks.forEach(callback => { try { callback(...) } catch { log } })
RECURSIVE RunCallbacks(_, _, _, _, _)
RunCallbacks(m, callbacks, i, newState, transition) ==
    IF m.thrown \/ i > Len(callbacks) THEN m
    ELSE RunCallbacks(
             [CallCallback(m, callbacks, i, newState, transition)
                EXCEPT !.thrown = FALSE],
             callbacks, i + 1, newState, transition)

triggerTransitionCallbacks(m, transition, newState) ==
    LET callbacks == IF transition \in DOMAIN transitionCallbacks
                     THEN transitionCallbacks[transition] ELSE <<>>
    IN RunCallbacks(m, callbacks, 1, newState, transition)

PushHistory_popNewest(m, record) ==
    LET pushedH == Append(m.stateHistory, record)
    IN IF m.thrown THEN m ELSE
       [m EXCEPT !.stateHistory = IF Len(pushedH) > maxHistory
                                  THEN SubSeq(pushedH, 1, maxHistory)
                                  ELSE pushedH,
                 !.pushed = Append(@, record)]

PushHistory_newestFirst(m, record) ==
    LET pushedH == <<record>> \o m.stateHistory
    IN IF m.thrown THEN m ELSE
       [m EXCEPT !.stateHistory = IF Len(pushedH) > maxHistory
                                  THEN Tail(pushedH) ELSE pushedH,
                 !.pushed = Append(@, record)]

\* stateHistory.push(record); if (length > maxHistory) shift()
PushHistory(m, record) ==
    LET pushedH == Append(m.stateHistory, record)
    IN IF m.thrown THEN m ELSE
       [m EXCEPT !.stateHistory = IF Len(pushedH) > maxHistory
                                  THEN Tail(pushedH) ELSE pushedH,
                 !.pushed = Append(@, record)]

\* the statements of transitionToState after the two early returns
performTransition_enterFirst(m, transition, targetState, direction) ==
    LET exited == onStateExit(m, m.currentState)
        entered == IF stateMachineGet(targetState) = "config"
                   THEN onStateEnter(exited, targetState)
                   ELSE exited
        moved == IF entered.thrown THEN entered
                 ELSE [entered EXCEPT !.previousState = entered.currentState,
                                      !.currentState = targetState]
        recorded == PushHistory(moved,
                        [from |-> moved.previousState,
                         to |-> moved.currentState,
                         transition |-> transition,
                         timestamp |-> now])
    IN
    IF recorded.thrown THEN [recorded EXCEPT !.result = "Error"]
    ELSE IF targetState = FnObject
    THEN [recorded EXCEPT !.result = "TypeError"]
    ELSE
    LET parts == Split(targetState)
        animDirection == IF Len(parts) > 1 THEN parts[2] ELSE direction
        animated == playAnimation(recorded, parts[1], animDirection)
        notified == triggerTransitionCallbacks(animated, transition, targetState)
    IN [notified EXCEPT !.result = IF notified.thrown THEN "Error"
                                   ELSE "true"]

performTransition(m, transition, targetState, direction) ==
    LET exited == onStateExit(m, m.currentState)
        moved == IF exited.thrown THEN exited
                 ELSE [exited EXCEPT !.previousState = exited.currentState,
                                     !.currentState = targetState]
        recorded == PushHistory(moved,
                        [from |-> moved.previousState,
                         to |-> moved.currentState,
                         transition |-> transition,
                         timestamp |-> now])
        entered == IF stateMachineGet(recorded.currentState) = "config"
                   THEN onStateEnter(recorded, recorded.currentState)
                   ELSE recorded
    IN
    IF entered.thrown
    THEN \* the exception of onExit or onEnter leaves transitionToState
         [entered EXCEPT !.result = "Error"]
    ELSE IF targetState = FnObject
    THEN \* targetState.split is not a function
         [entered EXCEPT !.result = "TypeError"]
    ELSE
    LET parts == Split(targetState)
        animDirection == IF Len(parts) > 1 THEN parts[2] ELSE direction
        animated == playAnimation(entered, parts[1], animDirection)
        notified == triggerTransitionCallbacks(animated, transition, targetState)
    IN [notified EXCEPT !.result = IF notified.thrown THEN "Error"
                                   ELSE "true"]

transitionToState(m, transition, direction) ==
    LET currentStateConfig == stateMachineGet(m.currentState)
    IN
    IF currentStateConfig = Undefined THEN [m EXCEPT !.result = "false"]
    ELSE IF currentStateConfig = FnObject
    THEN \* (function).transitions is undefined: reading [transition] throws
         [m EXCEPT !.result = "TypeError"]
    ELSE
    LET targetState == transitionsGet(m.currentState, transition)
    IN
    IF targetState = Undefined THEN [m EXCEPT !.result = "false"]
    ELSE performTransition(m, transition, targetState, direction)

forceState_withExit(m, state) ==
    IF stateMachineGet(state) # Undefined
    THEN LET parts == Split(state)
             exited == onStateExit(m, m.currentState)
             forced == [exited EXCEPT !.currentState = state]
             animated == playAnimation(forced, parts[1],
                             IF Len(parts) > 1 THEN parts[2] ELSE Undefined)
         IN [animated EXCEPT !.result = "true"]
    ELSE [m EXCEPT !.result = "false"]

forceState(m, state) ==
    IF stateMachineGet(state) # Undefined
    THEN LET parts == Split(state)
             forced == [m EXCEPT !.currentState = state]
             animated == playAnimation(forced, parts[1],
                             IF Len(parts) > 1 THEN parts[2] ELSE Undefined)
         IN [animated EXCEPT !.result = "true"]
    ELSE [m EXCEPT !.result = "false"]

(***************************************************************************)
(* DOM event listeners, in the order the initializer registers them        *)
(***************************************************************************)
\* CSS animation names stand for the substring the listeners test them for
AnimationNames ==
    {"crouch", "backflip-east", "backflip-west", "idle-breathing", "other"}

Includes(animationName, sub) == animationName = sub

playSpatialSound(m, name) == Emit(m, "playSpatialSound", name)

\* HoverDetector's click listener
hoverClickListener(m) ==
    playSpatialSound(playAnimation(m, "crouch", Undefined), "sfx-click")

handleDoubleClick(m) ==
    IF m.lastClickTime = 0
    THEN [m EXCEPT !.lastClickTime = now]
    ELSE LET clicked == IF now - m.lastClickTime < DoubleClickWindow
                        THEN transitionToState(m, "double_click", Null)
                        ELSE m
         IN [clicked EXCEPT !.lastClickTime = now]

\* AnimationController's click listener
controllerClickListener(m) ==
    IF m.currentState = "idle" THEN transitionToState(m, "click", Null)
    ELSE IF m.currentState = "sleeping"
    THEN transitionToState(m, "click", Null)
    ELSE IF m.currentState = "crouching" THEN handleDoubleClick(m)
    ELSE m

clickEvent(m) == controllerClickListener(hoverClickListener(m))

\* CharacterSystem's animationend listener, on the character element
characterAnimationEnd(m, animationName) ==
    IF Includes(animationName, "crouch") /\ m.currentAnimation = "crouching"
    THEN playAnimation(m, "idle", Undefined)
    ELSE m

\* AnimationController's animationend listener, on the document
controllerAnimationEnd(m, animationName) ==
    LET crouched ==
            IF Includes(animationName, "crouch")
               /\ m.currentState = "crouching"
            THEN transitionToState(m, "complete", Null)
            ELSE m
    IN IF (Includes(animationName, "backflip-east")
           \/ Includes(animationName, "backflip-west"))
          /\ crouched.currentState \in {"backflip_east", "backflip_west"}
       THEN transitionToState(crouched, "complete", Null)
       ELSE crouched

animationEndEvent(m, animationName, onCharacter) ==
    controllerAnimationEnd(
        IF onCharacter THEN characterAnimationEnd(m, animationName) ELSE m,
        animationName)

\* AnimationController's animationiteration listener; lucky stands for
\* Math.random() < 0.01
animationIterationEvent(m, animationName, lucky) ==
    IF Includes(animationName, "idle-breathing") /\ m.currentState = "idle"
       /\ lucky
    THEN transitionToState(m, "curious", Null)
    ELSE m

KeyInputs == {"1", "2", "3", "4", "0", "x"}

\* five if statements on e.key, of which at most one holds
keyDownEvent(m, key) ==
    CASE key = "1" -> transitionToState(m, "hover_east", Null)
      [] key = "2" -> transitionToState(m, "hover_west", Null)
      [] key = "3" -> transitionToState(m, "click", Null)
      [] key = "4" -> transitionToState(m, "timeout", Null)
      [] key = "0" -> transitionToState(m, "complete", Null)
      [] OTHER -> m

\* the setInterval callback; lucky stands for Math.random() < 0.001
autoSleepTimer(m, lucky) ==
    IF m.currentState = "idle" /\ lucky
    THEN transitionToState(m, "timeout", Null)
    ELSE m

\* the controller after a handler has run to its end
Commit(m, op, arg, from) ==
    /\ currentState' = m.currentState
    /\ previousState' = m.previousState
    /\ stateHistory' = m.stateHistory
    /\ masterVolume' = m.masterVolume
    /\ currentAnimation' = m.currentAnimation
    /\ currentDirection' = m.currentDirection
    /\ lastClickTime' = m.lastClickTime
    /\ allRecords' = m.pushed
    /\ lastCall' = [op |-> op, arg |-> arg, from |-> from,
                    result |-> m.result, trace |-> m.trace]

(***************************************************************************)
(* Calls on the controller's public methods                                *)
(***************************************************************************)
TokenInputs == TriggerVocabulary \cup TableTriggers \cup {"bogus", "constructor"}
StateInputs == States \cup {"bogus", "constructor"}
CallbackTriggers == {"click", "complete"}
CallbackKinds == {"returns", "throws"}

CallTransition(t) ==
    /\ calls < MaxCalls
    /\ calls' = calls + 1
    /\ Commit(transitionToState(Machine, t, Null), "transitionToState", t,
              currentState)
    /\ UNCHANGED <<transitionCallbacks, now, loopVars, hoverVars>>

CallForceState(x) ==
    /\ calls < MaxCalls
    /\ calls' = calls + 1
    /\ Commit(forceState(Machine, x), "forceState", x, currentState)
    /\ UNCHANGED <<transitionCallbacks, now, loopVars, hoverVars>>

registerTransitionCallback(t, k) ==
    /\ calls < MaxCalls
    /\ calls' = calls + 1
    /\ transitionCallbacks' =
         IF t \in DOMAIN transitionCallbacks
         THEN [transitionCallbacks EXCEPT ![t] = Append(@, k)]
         ELSE [x \in DOMAIN transitionCallbacks \cup {t} |->
                 IF x = t THEN <<k>> ELSE transitionCallbacks[x]]
    /\ lastCall' = [op |-> "registerTransitionCallback", arg |-> t,
                    from |-> currentState, result |-> Undefined,
                    trace |-> <<>>]
    /\ UNCHANGED <<currentState, previousState, stateHistory, masterVolume,
                   currentAnimation, currentDirection, lastClickTime, now,
                   allRecords, loopVars, hoverVars>>

(***************************************************************************)
(* GameLoop.  Times are in thirds of a millisecond, so that the fixed      *)
(* steps 1000/60 ms and 1000/30 ms are the integers 50 and 100.            *)
(***************************************************************************)
MOBILE_FPS == 30
DESKTOP_FPS == 60
MaxFrameDelta == 300    \* Math.min(deltaTime, 100)
FpsWindow == 3000       \* currentTime - lastFpsUpdate >= 1000
LoadTime == 3000        \* performance.now() when the page has loaded

Infinity == 1000000     \* 1000 / 0

\* 1000 / fps
FixedStep(f) ==
    IF f > 0 THEN 3000 \div f
    ELSE IF f = 0 THEN Infinity
    ELSE -(3000 \div (-f))

SystemNames == {"character", "cursor"}

\* a subsystem object: which of the two optional hooks it has
SystemKinds == [update : BOOLEAN, render : BOOLEAN]

Loop ==
    [isRunning |-> isRunning, lastTime |-> lastTime,
     accumulator |-> accumulator, deltaTime |-> deltaTime,
     systems |-> systems, frameCount |-> frameCount, fps |-> fps,
     lastFpsUpdate |-> lastFpsUpdate, pendingFrames |-> 0,
     thrown |-> FALSE, ticks |-> <<>>, totals |-> totals,
     stopIn |-> {}, fpsIn |-> {},
     tick |-> [calls |-> <<>>, simulated |-> 0]]

setFPS_resetAccumulator(g, f) ==
    [g EXCEPT !.deltaTime = FixedStep(f),
              !.accumulator = 0,
              !.totals.stepChanged = @ \/ FixedStep(f) # g.deltaTime]

setFPS(g, f) ==
    [g EXCEPT !.deltaTime = FixedStep(f),
              !.totals.stepChanged = @ \/ FixedStep(f) # g.deltaTime]

stop_keepRunning(g) == [g EXCEPT !.totals.stopped = TRUE]

stop(g) == [g EXCEPT !.isRunning = FALSE, !.totals.stopped = TRUE]

\* the call of one hook; throws tells whether the hook throws this time.  The
\* update hook of a subsystem of stopIn calls GAME_LOOP.stop() before that,
\* and a hook named in fpsIn calls GAME_LOOP.setFPS(fps).
CallHook(g, name, hook, dt, throws) ==
    LET stops == hook = "update" /\ name \in g.stopIn
        called ==
            [g EXCEPT
               !.tick.calls = Append(@, [name |-> name, hook |-> hook,
                                         dt |-> dt, threw |-> throws,
                                         stopped |-> stops]),
               !.thrown = throws,
               !.totals.updates[name] = IF hook = "update" THEN @ + 1 ELSE @,
               !.totals.lastThrew = IF hook = "update" /\ throws THEN TRUE ELSE @]
        stopped ==
            IF stops THEN stop([called EXCEPT !.totals.stoppedInFlight = TRUE])
            ELSE called
        sets == {c \in g.fpsIn : c.name = name /\ c.hook = hook}
    IN IF sets = {} THEN stopped
       ELSE setFPS(stopped, (CHOOSE c \in sets : TRUE).fps)

updateSystem_noCatch(g, entry, dt, failing) ==
    IF entry.system.update
    THEN CallHook(g, entry.name, "update", dt, entry.name \in failing)
    ELSE g

\* the forEach callback of update: try { system.update(dt) } catch { log }
updateSystem(g, entry, dt, failing) ==
    IF entry.system.update
    THEN [CallHook(g, entry.name, "update", dt, entry.name \in failing)
            EXCEPT !.thrown = FALSE]
    ELSE g

renderSystem_noCatch(g, entry, failing) ==
    IF entry.system.render
    THEN CallHook(g, entry.name, "render", 0, entry.name \in failing)
    ELSE g

\* the forEach callback of render: try { system.render() } catch { log }
renderSystem(g, entry, failing) ==
    IF entry.system.render
    THEN [CallHook(g, entry.name, "render", 0, entry.name \in failing)
            EXCEPT !.thrown = FALSE]
    ELSE g

\* this.systems.forEach over the entries from position i on; an exception
\* that escapes a callback ends the forEach
RECURSIVE update(_, _, _, _)
update(g, i, dt, failing) ==
    IF g.thrown \/ i > Len(g.systems) THEN g
    ELSE update(updateSystem(g, g.systems[i], dt, failing), i + 1, dt, failing)

\* a forEach that visits the entries from the last one to the first
RECURSIVE render_reversed(_, _, _)
render_reversed(g, i, failing) ==
    IF g.thrown \/ i > Len(g.systems) THEN g
    ELSE render_reversed(
             renderSystem(g, g.systems[Len(g.systems) + 1 - i], failing),
             i + 1, failing)

RECURSIVE render(_, _, _)
render(g, i, failing) ==
    IF g.thrown \/ i > Len(g.systems) THEN g
    ELSE render(renderSystem(g, g.systems[i], failing), i + 1, failing)

\* Math.round of the quotient of two non-negative integers
RoundDiv(a, b) == (2 * a + b) \div (2 * b)

updateFPS(g, currentTime) ==
    IF currentTime - g.lastFpsUpdate >= FpsWindow
    THEN [g EXCEPT !.fps = RoundDiv(g.frameCount * FpsWindow,
                                    currentTime - g.lastFpsUpdate),
                   !.frameCount = 0,
                   !.lastFpsUpdate = currentTime]
    ELSE g

RECURSIVE Drain_strict(_, _)
Drain_strict(g, failing) ==
    IF g.thrown \/ g.accumulator <= g.deltaTime THEN g
    ELSE LET updated == update([g EXCEPT !.tick.simulated = @ + g.deltaTime],
                               1, g.deltaTime, failing)
         IN IF updated.thrown THEN updated
            ELSE Drain_strict(
                     [updated EXCEPT !.accumulator = @ - updated.deltaTime],
                     failing)

\* while (this.accumulator >= this.deltaTime) { update; accumulator -= }
RECURSIVE Drain(_, _)
Drain(g, failing) ==
    IF g.thrown \/ g.accumulator < g.deltaTime THEN g
    ELSE LET updated == update([g EXCEPT !.tick.simulated = @ + g.deltaTime],
                               1, g.deltaTime, failing)
         IN IF updated.thrown THEN updated
            ELSE Drain([updated EXCEPT !.accumulator = @ - updated.deltaTime],
                       failing)

Clamp_none(d) == d

\* Math.min(deltaTime, 100)
Clamp(d) == IF d < MaxFrameDelta THEN d ELSE MaxFrameDelta

\* one call of gameLoop(currentTime); failU and failR are the subsystems
\* whose update and render throw during this call
gameLoop(g, currentTime, failU, failR) ==
    IF ~g.isRunning
    THEN [g EXCEPT !.ticks = Append(@, [ran |-> FALSE])]
    ELSE
    LET raw == currentTime - g.lastTime
        timed == updateFPS([g EXCEPT !.lastTime = currentTime], currentTime)
        added == [timed EXCEPT !.accumulator = @ + Clamp(raw),
                               !.tick = [calls |-> <<>>, simulated |-> 0],
                               !.totals.raw = @ + raw,
                               !.totals.overLong = @ \/ raw > MaxFrameDelta,
                               !.totals.lastThrew = FALSE]
        drained == Drain(added, failU)
        rendered == IF drained.thrown THEN drained
                    ELSE render(drained, 1, failR)
        finished == IF rendered.thrown THEN rendered
                    ELSE [rendered EXCEPT !.frameCount = @ + 1,
                                          !.pendingFrames = @ + 1]
    IN [finished EXCEPT
          !.thrown = FALSE,
          !.ticks = Append(@, [ran |-> TRUE, raw |-> raw,
                               carryIn |-> g.accumulator,
                               added |-> added.accumulator - g.accumulator,
                               step |-> g.deltaTime,
                               carryOut |-> finished.accumulator,
                               simulated |-> finished.tick.simulated,
                               calls |-> finished.tick.calls,
                               rescheduled |-> ~rendered.thrown,
                               afterThrow |-> g.totals.lastThrew])]

\* a start() that leaves lastTime as the last tick left it
\* gameLoop up to its while loop
beginTick(g, currentTime) ==
    LET raw == currentTime - g.lastTime
        timed == updateFPS([g EXCEPT !.lastTime = currentTime], currentTime)
    IN [timed EXCEPT !.accumulator = @ + Clamp(raw),
                     !.tick = [calls |-> <<>>, simulated |-> 0],
                     !.totals.raw = @ + raw,
                     !.totals.overLong = @ \/ raw > MaxFrameDelta,
                     !.totals.lastThrew = FALSE]

\* one pass of the body of gameLoop's while loop
drainStep(g) ==
    LET updated == update([g EXCEPT !.tick.simulated = @ + g.deltaTime],
                          1, g.deltaTime, {})
    IN [updated EXCEPT !.accumulator = @ - updated.deltaTime]

\* gameLoop after its while loop
endTick(g) ==
    [render(g, 1, {}) EXCEPT !.frameCount = @ + 1, !.pendingFrames = @ + 1]

start_keepLastTime(g, failU, failR) ==
    IF g.isRunning
    THEN [g EXCEPT !.ticks = Append(@, [ran |-> FALSE,
                                        warning |-> "already running"])]
    ELSE gameLoop([g EXCEPT !.isRunning = TRUE,
                            !.frameCount = 0,
                            !.lastFpsUpdate = perfNow,
                            !.totals.stopped = FALSE,
                            !.totals.stoppedInFlight = FALSE],
                  perfNow, failU, failR)

start_restart(g, failU, failR) ==
    gameLoop([g EXCEPT !.isRunning = TRUE,
                       !.lastTime = perfNow,
                       !.frameCount = 0,
                       !.lastFpsUpdate = perfNow,
                       !.totals.stopped = FALSE,
                       !.totals.stoppedInFlight = FALSE],
             perfNow, failU, failR)

\* an entry of ticks with ran FALSE and a warning stands for the
\* console.warn of a start() that returns at once
start(g, failU, failR) ==
    IF g.isRunning
    THEN [g EXCEPT !.ticks = Append(@, [ran |-> FALSE,
                                        warning |-> "already running"])]
    ELSE gameLoop([g EXCEPT !.isRunning = TRUE,
                            !.lastTime = perfNow,
                            !.frameCount = 0,
                            !.lastFpsUpdate = perfNow,
                            !.totals.stopped = FALSE,
                            !.totals.stoppedInFlight = FALSE],
                  perfNow, failU, failR)

\* Map.set: a new key goes last, an existing key keeps its place
registerSystem(g, name, system) ==
    IF \E i \in 1..Len(g.systems) : g.systems[i].name = name
    THEN [g EXCEPT !.systems =
            [i \in 1..Len(@) |->
               IF @[i].name = name
               THEN [name |-> name, system |-> system] ELSE @[i]],
            !.totals.sinceStart[name] = FALSE]
    ELSE [g EXCEPT !.systems = Append(@, [name |-> name, system |-> system]),
                   !.totals.sinceStart[name] =
                       system.update /\ g.totals.raw = 0
                       /\ g.totals.updates[name] = 0 /\ ~g.isRunning
                       /\ g.accumulator = 0]

unregisterSystem_keep(g, name) ==
    [g EXCEPT !.totals.sinceStart[name] = FALSE]

unregisterSystem(g, name) ==
    [g EXCEPT !.systems = SelectSeq(@, LAMBDA e : e.name # name),
              !.totals.sinceStart[name] = FALSE]

\* the scheduler after a call has run to its end
CommitLoop(g) ==
    /\ isRunning' = g.isRunning
    /\ lastTime' = g.lastTime
    /\ accumulator' = g.accumulator
    /\ deltaTime' = g.deltaTime
    /\ systems' = g.systems
    /\ frameCount' = g.frameCount
    /\ fps' = g.fps
    /\ lastFpsUpdate' = g.lastFpsUpdate
    /\ pendingFrames' = pendingFrames + g.pendingFrames
    /\ ticks' = g.ticks
    /\ totals' = g.totals
    /\ UNCHANGED <<supportedFPS, tickPc, fsmVars, hoverVars>>

Start(failU, failR) ==
    /\ isRunning \/ pendingFrames < MaxPending
    /\ CommitLoop(start(Loop, failU, failR))
    /\ UNCHANGED <<perfNow, frames>>

Stop ==
    /\ CommitLoop(stop(Loop))
    /\ UNCHANGED <<perfNow, frames>>

RegisterSystem(name, system) ==
    /\ CommitLoop(registerSystem(Loop, name, system))
    /\ UNCHANGED <<perfNow, frames>>

UnregisterSystem(name) ==
    /\ CommitLoop(unregisterSystem(Loop, name))
    /\ UNCHANGED <<perfNow, frames>>

SetFPS(f) ==
    /\ CommitLoop(setFPS(Loop, f))
    /\ UNCHANGED <<perfNow, frames>>

\* the time between two animation frames
FrameGaps == {20, 80, 300, 3000}

\* the pending callbacks of one animation frame, all with the frame's time
RECURSIVE RunCallbacksOfFrame(_, _, _, _, _)
RunCallbacksOfFrame(g, n, currentTime, failU, failR) ==
    IF n = 0 THEN g
    ELSE RunCallbacksOfFrame(gameLoop(g, currentTime, failU, failR), n - 1,
                             currentTime, failU, failR)

\* an animation frame of the scheduler g0
RunFrame(g0, gap, failU, failR) ==
    /\ pendingFrames > 0
    /\ frames < MaxFrames
    /\ frames' = frames + 1
    /\ perfNow' = perfNow + gap
    /\ LET g == RunCallbacksOfFrame(g0, pendingFrames, perfNow + gap,
                                    failU, failR)
       IN /\ isRunning' = g.isRunning
          /\ lastTime' = g.lastTime
          /\ accumulator' = g.accumulator
          /\ deltaTime' = g.deltaTime
          /\ systems' = g.systems
          /\ frameCount' = g.frameCount
          /\ fps' = g.fps
          /\ lastFpsUpdate' = g.lastFpsUpdate
          /\ pendingFrames' = g.pendingFrames
          /\ ticks' = g.ticks
          /\ totals' = g.totals
    /\ UNCHANGED <<supportedFPS, tickPc, fsmVars, hoverVars>>

AnimationFrame(gap, failU, failR) == RunFrame(Loop, gap, failU, failR)

\* an animation frame in which the update hooks of stoppers call stop()
StoppingAnimationFrame(gap, stoppers) ==
    RunFrame([Loop EXCEPT !.stopIn = stoppers], gap, {}, {})

\* an animation frame in which the hooks named in setters call setFPS()
SettingAnimationFrame(gap, setters) ==
    RunFrame([Loop EXCEPT !.fpsIn = setters], gap, {}, {})

(***************************************************************************)
(* Utils.getMouseDirection.  Math.atan2(dy, dx) * 180 / Math.PI is kept as *)
(* the sixteenth of the circle the angle lies in: 2k is exactly 45k/2      *)
(* degrees and 2k + 1 is strictly between 2k and 2k + 2, so that the       *)
(* comparisons with -135, -45, 45 and 135 are those of the angle.          *)
(***************************************************************************)
Deg45 == 2
Deg135 == 6

\* the angle of (dx, dy) for dy > 0, strictly between 0 and 180 degrees
UpperAngle(dy, dx) ==
    IF dx > dy THEN 1
    ELSE IF dx = dy THEN 2
    ELSE IF dx > 0 THEN 3
    ELSE IF dx = 0 THEN 4
    ELSE IF -dx < dy THEN 5
    ELSE IF -dx = dy THEN 6
    ELSE 7

atan2(dy, dx) ==
    IF dy = 0 THEN (IF dx >= 0 THEN 0 ELSE 8)
    ELSE IF dy > 0 THEN UpperAngle(dy, dx)
    ELSE -UpperAngle(-dy, dx)

getMouseDirection_closedEast(startX, startY, endX, endY) ==
    LET dx == endX - startX
        dy == endY - startY
        angle == atan2(dy, dx)
    IN IF angle >= -Deg45 /\ angle <= Deg45 THEN "east"
       ELSE IF angle >= Deg45 /\ angle < Deg135 THEN "south"
       ELSE IF angle >= Deg135 \/ angle < -Deg135 THEN "west"
       ELSE "north"

getMouseDirection(startX, startY, endX, endY) ==
    LET dx == endX - startX
        dy == endY - startY
        angle == atan2(dy, dx)
    IN IF angle >= -Deg45 /\ angle < Deg45 THEN "east"
       ELSE IF angle >= Deg45 /\ angle < Deg135 THEN "south"
       ELSE IF angle >= Deg135 \/ angle < -Deg135 THEN "west"
       ELSE "north"

(***************************************************************************)
(* HoverDetector                                                           *)
(***************************************************************************)
MinHoverCooldown == 100
MinMovementThreshold == 10
BACKFLIP == 800         \* CONFIG.ANIMATION_TIMING.BACKFLIP

\* Math.max(a, b)
MathMax(a, b) == IF a > b THEN a ELSE b

\* the detector, the controller and the character as one value, threaded
\* through the statements of a listener
Detector ==
    [hoverEnabled |-> hoverEnabled, lastMouseX |-> lastMouseX,
     lastMouseY |-> lastMouseY, hoverCooldown |-> hoverCooldown,
     movementThreshold |-> movementThreshold,
     lastTriggerTime |-> lastTriggerTime, backflipDue |-> backflipDue,
     m |-> Machine,
     backflips |-> 0]    \* calls of playBackflip made by the listener

\* CharacterSystem.playBackflip(direction)
playBackflip(h, direction) ==
    [h EXCEPT !.m = playAnimation(@, "backflip", direction),
              !.backflipDue = now + BACKFLIP,
              !.backflips = @ + 1]

\* the callback playBackflip hands to setTimeout
backflipTimeout(m) ==
    IF m.currentAnimation = "backflip" THEN playAnimation(m, "idle", Undefined)
    ELSE m

handleHoverDirection_anyDirection(h, direction) ==
    IF ~h.hoverEnabled THEN h
    ELSE IF h.m.currentAnimation = "idle"
    THEN LET flipped == playBackflip(h, direction)
         IN [flipped EXCEPT !.m = playSpatialSound(@, "sfx-backflip")]
    ELSE h

handleHoverDirection(h, direction) ==
    IF ~h.hoverEnabled THEN h
    ELSE IF h.m.currentAnimation = "idle" /\ direction \in {"east", "west"}
    THEN LET flipped == playBackflip(h, direction)
         IN [flipped EXCEPT !.m = playSpatialSound(@, "sfx-backflip")]
    ELSE h

\* Math.sqrt(deltaX * deltaX + deltaY * deltaY) > threshold, for a
\* threshold that is not negative
DistanceExceeds(deltaX, deltaY, threshold) ==
    deltaX * deltaX + deltaY * deltaY > threshold * threshold

pointerMove_restartOnTrigger(h, x, y) ==
    IF ~h.hoverEnabled THEN h
    ELSE IF now - h.lastTriggerTime < h.hoverCooldown THEN h
    ELSE LET deltaX == x - h.lastMouseX
             deltaY == y - h.lastMouseY
             handled ==
                 IF DistanceExceeds(deltaX, deltaY, h.movementThreshold)
                 THEN LET directed == handleHoverDirection(h,
                              getMouseDirection(h.lastMouseX, h.lastMouseY,
                                                x, y))
                      IN IF directed.backflips > h.backflips
                         THEN [directed EXCEPT !.lastTriggerTime = now]
                         ELSE directed
                 ELSE h
         IN [handled EXCEPT !.lastMouseX = x, !.lastMouseY = y]

\* the body the mousemove and the touchmove listener share, run by
\* Utils.debounce for the last event of a burst at (x, y)
pointerMove(h, x, y) ==
    IF ~h.hoverEnabled THEN h
    ELSE IF now - h.lastTriggerTime < h.hoverCooldown THEN h
    ELSE LET deltaX == x - h.lastMouseX
             deltaY == y - h.lastMouseY
             handled ==
                 IF DistanceExceeds(deltaX, deltaY, h.movementThreshold)
                 THEN [handleHoverDirection(h,
                           getMouseDirection(h.lastMouseX, h.lastMouseY, x, y))
                         EXCEPT !.lastTriggerTime = now]
                 ELSE h
         IN [handled EXCEPT !.lastMouseX = x, !.lastMouseY = y]

mouseMoveListener(h, x, y) == pointerMove(h, x, y)

\* touches is e.touches, a sequence of positions
touchMoveListener(h, touches) ==
    IF Len(touches) = 0 THEN h
    ELSE pointerMove(h, touches[1][1], touches[1][2])

setHoverCooldown_noFloor(cooldown) == cooldown

setHoverCooldown(cooldown) == MathMax(cooldown, MinHoverCooldown)

setMovementThreshold(threshold) == MathMax(threshold, MinMovementThreshold)

\* the detector and the character after a listener has run to its end
CommitHover(h, op, arg) ==
    /\ Commit(h.m, op, arg, currentState)
    /\ hoverEnabled' = h.hoverEnabled
    /\ lastMouseX' = h.lastMouseX
    /\ lastMouseY' = h.lastMouseY
    /\ hoverCooldown' = h.hoverCooldown
    /\ movementThreshold' = h.movementThreshold
    /\ lastTriggerTime' = h.lastTriggerTime
    /\ backflipDue' = h.backflipDue
    /\ accepted' = IF h.backflips > 0
                   THEN [count |-> accepted.count + h.backflips,
                         time |-> now, x |-> h.lastMouseX, y |-> h.lastMouseY]
                   ELSE accepted

(***************************************************************************)
(* Specifications                                                          *)
(***************************************************************************)
StartTime == 1000

InitController ==
    /\ currentState = "idle"
    /\ previousState = "idle"
    /\ stateHistory = <<>>
    /\ transitionCallbacks = <<>>
    /\ masterVolume = AUDIO_VOLUME
    /\ currentAnimation = "idle"
    /\ currentDirection = "east"
    /\ lastClickTime = 0
    /\ now = StartTime
    /\ lastCall = [op |-> "constructor", arg |-> Undefined, from |-> Undefined,
                   result |-> Undefined, trace |-> <<>>]
    /\ allRecords = <<>>
    /\ calls = 0

InitLoop(detectedFPS) ==
    /\ supportedFPS = detectedFPS
    /\ isRunning = FALSE
    /\ lastTime = 0
    /\ accumulator = 0
    /\ deltaTime = FixedStep(detectedFPS)
    /\ systems = <<>>
    /\ frameCount = 0
    /\ fps = 0
    /\ lastFpsUpdate = 0
    /\ perfNow = LoadTime
    /\ pendingFrames = 0
    /\ ticks = <<>>
    /\ totals = [raw |-> 0, overLong |-> FALSE, stepChanged |-> FALSE,
                 stopped |-> FALSE, stoppedInFlight |-> FALSE,
                 updates |-> [n \in SystemNames |-> 0],
                 sinceStart |-> [n \in SystemNames |-> FALSE],
                 lastThrew |-> FALSE]
    /\ frames = 0
    /\ tickPc = [active |-> FALSE, steps |-> 0]

InitHover ==
    /\ hoverEnabled = TRUE
    /\ lastMouseX = 0
    /\ lastMouseY = 0
    /\ hoverCooldown = 1000
    /\ movementThreshold = 50
    /\ lastTriggerTime = 0
    /\ backflipDue = 0
    /\ moves = 0
    /\ accepted = [count |-> 0, time |-> 0, x |-> 0, y |-> 0]
    /\ classified = [done |-> FALSE, startX |-> 0, startY |-> 0, endX |-> 0,
                     endY |-> 0, direction |-> Undefined]

Init == InitController /\ InitLoop(DESKTOP_FPS) /\ InitHover

NextFSM ==
    \/ \E t \in TokenInputs : CallTransition(t)
    \/ \E x \in StateInputs : CallForceState(x)
    \/ \E t \in CallbackTriggers, k \in CallbackKinds :
           registerTransitionCallback(t, k)

SpecFSM == Init /\ [][NextFSM]_vars

\* long runs of transitions, over the triggers of a few cycles through idle
HistoryTokens ==
    {"click", "complete", "double_click", "calm", "hover_east", "interrupt",
     "timeout", "wake_up", "bogus"}

RunTransition(t) ==
    /\ Len(allRecords) < MaxHistoryRun
    /\ Commit(transitionToState(Machine, t, Null), "transitionToState", t,
              currentState)
    /\ UNCHANGED <<transitionCallbacks, now, calls, loopVars, hoverVars>>

NextHistory == \E t \in HistoryTokens : RunTransition(t)

SpecHistory == Init /\ [][NextHistory]_vars

TimeAdvances == {150, 300}

Dispatch(m, op, arg) ==
    /\ Len(allRecords) < MaxEventRun
    /\ Commit(m, op, arg, currentState)
    /\ UNCHANGED <<transitionCallbacks, now, calls, loopVars, hoverVars>>

\* a click on the document, handled at the time now
ClickEvent == Dispatch(clickEvent(Machine), "click", now)

AnimationEndEvent(animationName, onCharacter) ==
    Dispatch(animationEndEvent(Machine, animationName, onCharacter),
             "animationend", animationName)

AnimationIterationEvent(animationName, lucky) ==
    Dispatch(animationIterationEvent(Machine, animationName, lucky),
             "animationiteration", animationName)

KeyDownEvent(key) == Dispatch(keyDownEvent(Machine, key), "keydown", key)

AutoSleepTimer(lucky) ==
    Dispatch(autoSleepTimer(Machine, lucky), "setInterval", Undefined)

AdvanceTime(d) ==
    /\ now < StartTime + MaxAdvances * 150
    /\ now' = now + d
    /\ UNCHANGED <<currentState, previousState, stateHistory,
                   transitionCallbacks, masterVolume, currentAnimation,
                   currentDirection, lastClickTime, lastCall, allRecords,
                   calls, loopVars, hoverVars>>

NextEvents ==
    \/ ClickEvent
    \/ \E a \in AnimationNames, c \in BOOLEAN : AnimationEndEvent(a, c)
    \/ \E a \in AnimationNames, l \in BOOLEAN : AnimationIterationEvent(a, l)
    \/ \E k \in KeyInputs : KeyDownEvent(k)
    \/ \E l \in BOOLEAN : AutoSleepTimer(l)
    \/ \E d \in TimeAdvances : AdvanceTime(d)

SpecEvents == Init /\ [][NextEvents]_vars

\* transitions by every key of the table, and the page's volume control
UserVolumes == {0, 5, 10}

AudioTransition(t) ==
    /\ Len(allRecords) < MaxAudioRun
    /\ Commit(transitionToState(Machine, t, Null), "transitionToState", t,
              currentState)
    /\ UNCHANGED <<transitionCallbacks, now, calls, loopVars, hoverVars>>

\* the debug console's setVolume(volume)
SetVolume(volume) ==
    /\ masterVolume # volume
    /\ Commit(setMasterVolume(Machine, volume), "setVolume", volume,
              currentState)
    /\ UNCHANGED <<transitionCallbacks, now, calls, loopVars, hoverVars>>

NextAudio ==
    \/ \E t \in TableTriggers : AudioTransition(t)
    \/ \E v \in UserVolumes : SetVolume(v)

SpecAudio == Init /\ [][NextAudio]_vars

\* transitions during which a method of the audio or of the character
\* collaborator throws
CollaboratorFaults ==
    {{}, {"setMasterVolume"}, {"playSound"}, {"playAnimation"}}

FaultyTransition(t, faults) ==
    /\ Len(allRecords) < MaxCollaboratorRun
    /\ Commit(transitionToState([Machine EXCEPT !.faults = faults], t, Null),
              "transitionToState", t, currentState)
    /\ UNCHANGED <<transitionCallbacks, now, calls, loopVars, hoverVars>>

RegisterCallback(t, k) ==
    /\ t \notin DOMAIN transitionCallbacks
    /\ registerTransitionCallback(t, k)

NextCollaborators ==
    \/ \E t \in TableTriggers, f \in CollaboratorFaults : FaultyTransition(t, f)
    \/ \E t \in CallbackTriggers : RegisterCallback(t, "returns")

SpecCollaborators == Init /\ [][NextCollaborators]_vars

\* callbacks of the trigger click, some of which call transitionToState
\* themselves
NestingKinds == {"returns", "nests"}

RegisterNesting(k) ==
    /\ "click" \in DOMAIN transitionCallbacks
       => Len(transitionCallbacks["click"]) < MaxCallbacks
    /\ registerTransitionCallback("click", k)

NextNesting ==
    \/ \E k \in NestingKinds : RegisterNesting(k)
    \/ \E t \in TableTriggers : CallTransition(t)

SpecNesting == Init /\ [][NextNesting]_vars

InitDevices ==
    /\ InitController
    /\ \E f \in {MOBILE_FPS, DESKTOP_FPS} : InitLoop(f)
    /\ InitHover

\* the subsystems of the page: each has both hooks and registers itself
\* while the page initialises, before the loop is started
PageSystem == [update |-> TRUE, render |-> TRUE]

\* the order in which the initializer has the subsystems register
InitOrder == <<"cursor", "character">>

InitSystem(name) ==
    /\ ~isRunning /\ frames = 0 /\ pendingFrames = 0 /\ totals.raw = 0
    /\ Len(systems) < Len(InitOrder)
    /\ name = InitOrder[Len(systems) + 1]
    /\ RegisterSystem(name, PageSystem)

\* the start() of startGame, made while the loop is not running
StartLoop == ~isRunning /\ Start({}, {})

Frame(gap) == AnimationFrame(gap, {}, {})

NextLoop ==
    \/ \E n \in SystemNames : InitSystem(n)
    \/ StartLoop
    \/ Stop
    \/ \E f \in {MOBILE_FPS, DESKTOP_FPS} : SetFPS(f)
    \/ \E gap \in FrameGaps : Frame(gap)

SpecLoop == InitDevices /\ [][NextLoop]_vars

\* start() and stop() called at any time, also start() on a running loop
\* and stop() from inside a subsystem's update
StopGaps == {80, 300}

StartCall == Start({}, {})

LifecycleFrame(gap) ==
    /\ frames < MaxLifecycleFrames
    /\ AnimationFrame(gap, {}, {})

StoppingFrame(gap, name) ==
    /\ frames < MaxLifecycleFrames
    /\ StoppingAnimationFrame(gap, {name})

NextLifecycle ==
    \/ \E n \in SystemNames : InitSystem(n)
    \/ StartCall
    \/ Stop
    \/ \E gap \in StopGaps : LifecycleFrame(gap)
    \/ \E gap \in StopGaps, n \in SystemNames : StoppingFrame(gap, n)

SpecLifecycle == Init /\ [][NextLifecycle]_vars

\* stop() followed by start() while the callback that the last tick
\* requested is still pending: stop() cancels nothing, start() calls
\* gameLoop(), which requests one more
Restart ==
    /\ ~isRunning
    /\ pendingFrames < MaxChains
    /\ CommitLoop(start(Loop, {}, {}))
    /\ UNCHANGED <<perfNow, frames>>

ChainFrame(gap) ==
    /\ frames < MaxLifecycleFrames
    /\ AnimationFrame(gap, {}, {})

NextChains ==
    \/ \E n \in SystemNames : InitSystem(n)
    \/ Restart
    \/ Stop
    \/ \E gap \in StopGaps : ChainFrame(gap)

SpecChains == Init /\ [][NextChains]_vars

\* setFPS() called between ticks and from inside a subsystem's hook
HookNames == {"update", "render"}

HookFrame(gap) ==
    /\ frames < MaxHookFrames
    /\ AnimationFrame(gap, {}, {})

SettingFrame(gap, name, hook, f) ==
    /\ frames < MaxHookFrames
    /\ SettingAnimationFrame(gap, {[name |-> name, hook |-> hook, fps |-> f]})

NextHooks ==
    \/ \E n \in SystemNames : InitSystem(n)
    \/ StartLoop
    \/ \E f \in {MOBILE_FPS, DESKTOP_FPS} : SetFPS(f)
    \/ \E gap \in FrameGaps : HookFrame(gap)
    \/ \E gap \in FrameGaps, n \in SystemNames, h \in HookNames,
          f \in {MOBILE_FPS, DESKTOP_FPS} : SettingFrame(gap, n, h, f)

SpecHooks == InitDevices /\ [][NextHooks]_vars

\* gameLoop one pass of its while loop at a time, with every kind of value
\* that setFPS() accepts; setFPS() is called between the ticks of a
\* running loop
AcceptedFps == {DESKTOP_FPS, MOBILE_FPS, 0, -DESKTOP_FPS}

DrainGaps == {80, 160}

\* the scheduler after a part of a gameLoop call; fired tells how many
\* pending callbacks the part has consumed
CommitTick(g, fired, pc) ==
    /\ isRunning' = g.isRunning
    /\ lastTime' = g.lastTime
    /\ accumulator' = g.accumulator
    /\ deltaTime' = g.deltaTime
    /\ systems' = g.systems
    /\ frameCount' = g.frameCount
    /\ fps' = g.fps
    /\ lastFpsUpdate' = g.lastFpsUpdate
    /\ pendingFrames' = pendingFrames - fired + g.pendingFrames
    /\ ticks' = g.ticks
    /\ totals' = g.totals
    /\ tickPc' = pc
    /\ UNCHANGED <<supportedFPS, fsmVars, hoverVars>>

SetAnyFPS(f) ==
    /\ isRunning
    /\ ~tickPc.active
    /\ SetFPS(f)

BeginTick(gap) ==
    /\ isRunning
    /\ ~tickPc.active
    /\ pendingFrames > 0
    /\ frames < MaxDrainFrames
    /\ frames' = frames + 1
    /\ perfNow' = perfNow + gap
    /\ CommitTick(beginTick(Loop, perfNow + gap), 1,
                  [active |-> TRUE, steps |-> 0])

DrainStep ==
    /\ tickPc.active
    /\ accumulator >= deltaTime
    /\ tickPc.steps < MaxDrainSteps
    /\ CommitTick(drainStep(Loop), 0,
                  [active |-> TRUE, steps |-> tickPc.steps + 1])
    /\ UNCHANGED <<perfNow, frames>>

EndTick ==
    /\ tickPc.active
    /\ accumulator < deltaTime
    /\ CommitTick(endTick(Loop), 0,
                  [active |-> FALSE, steps |-> tickPc.steps])
    /\ UNCHANGED <<perfNow, frames>>

NextDrain ==
    \/ \E n \in SystemNames : InitSystem(n)
    \/ StartLoop
    \/ \E f \in AcceptedFps : SetAnyFPS(f)
    \/ \E gap \in DrainGaps : BeginTick(gap)
    \/ DrainStep
    \/ EndTick

SpecDrain == InitDevices /\ [][NextDrain]_vars

\* subsystems of every shape, registered and unregistered at any time,
\* with hooks that throw
FaultGaps == {80, 300}

\* which subsystems' update, and which subsystems' render, throw in a frame
Failures ==
    {<<{}, {}>>, <<{"character"}, {}>>, <<{}, {"character"}>>,
     <<{"cursor"}, {"cursor"}>>, <<{"character", "cursor"}, {"character"}>>}

FaultyFrame(gap, failU, failR) ==
    /\ frames < MaxFaultFrames
    /\ AnimationFrame(gap, failU, failR)

NextFaults ==
    \/ \E n \in SystemNames, k \in SystemKinds : RegisterSystem(n, k)
    \/ \E n \in SystemNames : UnregisterSystem(n)
    \/ StartLoop
    \/ \E gap \in FaultGaps, f \in Failures : FaultyFrame(gap, f[1], f[2])

SpecFaults == Init /\ [][NextFaults]_vars

\* getMouseDirection called on pointer positions of a grid
GridCoords == {100 * c : c \in 0..MaxGrid}

Classify(startX, startY, endX, endY) ==
    /\ classified' =
         [done |-> TRUE, startX |-> startX, startY |-> startY,
          endX |-> endX, endY |-> endY,
          direction |-> getMouseDirection(startX, startY, endX, endY)]
    /\ UNCHANGED <<fsmVars, loopVars, hoverEnabled, lastMouseX, lastMouseY,
                   hoverCooldown, movementThreshold, lastTriggerTime,
                   backflipDue, moves, accepted>>

NextDirection ==
    \E startX \in GridCoords, startY \in GridCoords,
       endX \in GridCoords, endY \in GridCoords :
        Classify(startX, startY, endX, endY)

SpecDirection == Init /\ [][NextDirection]_vars

\* the pointer over the page: moves of the mouse and of a finger, the
\* pointer entering and leaving the document, the detector's setters and
\* the timer of the backflip
PointerPositions == {<<x, y>> : x \in {0, 30, 60}, y \in {0, 60}}
\* e.touches of the touchmove events: no finger, or fingers of which the
\* first is at a pointer position
TouchInputs == {<<>>, <<<<60, 0>>>>, <<<<0, 60>>, <<30, 0>>>>}
HoverAdvances == {500, 1000}
CooldownInputs == {-1000, 0, 99, 500}
ThresholdInputs == {-50, 9, 30}

HoverEvent(h, op, arg) ==
    /\ CommitHover(h, op, arg)
    /\ UNCHANGED <<transitionCallbacks, now, calls, loopVars, classified>>

MouseMove(x, y) ==
    /\ moves < MaxMoves
    /\ moves' = moves + 1
    /\ HoverEvent(mouseMoveListener(Detector, x, y), "mousemove", <<x, y>>)

TouchMove(touches) ==
    /\ moves < MaxMoves
    /\ moves' = moves + 1
    /\ HoverEvent(touchMoveListener(Detector, touches), "touchmove", touches)

SetHoverEnabled(enabled) ==
    /\ hoverEnabled' = enabled
    /\ UNCHANGED <<fsmVars, loopVars, lastMouseX, lastMouseY, hoverCooldown,
                   movementThreshold, lastTriggerTime, backflipDue, moves,
                   accepted, classified>>

MouseEnter == SetHoverEnabled(TRUE)

MouseLeave == SetHoverEnabled(FALSE)

EnableHover == SetHoverEnabled(TRUE)

DisableHover == SetHoverEnabled(FALSE)

SetHoverCooldown(cooldown) ==
    /\ hoverCooldown' = setHoverCooldown(cooldown)
    /\ UNCHANGED <<fsmVars, loopVars, hoverEnabled, lastMouseX, lastMouseY,
                   movementThreshold, lastTriggerTime, backflipDue, moves,
                   accepted, classified>>

SetMovementThreshold(threshold) ==
    /\ movementThreshold' = setMovementThreshold(threshold)
    /\ UNCHANGED <<fsmVars, loopVars, hoverEnabled, lastMouseX, lastMouseY,
                   hoverCooldown, lastTriggerTime, backflipDue, moves,
                   accepted, classified>>

BackflipTimer ==
    /\ backflipDue # 0
    /\ now >= backflipDue
    /\ backflipDue' = 0
    /\ Commit(backflipTimeout(Machine), "setTimeout", Undefined, currentState)
    /\ UNCHANGED <<transitionCallbacks, now, calls, loopVars, hoverEnabled,
                   lastMouseX, lastMouseY, hoverCooldown, movementThreshold,
                   lastTriggerTime, moves, accepted, classified>>

HoverAdvanceTime(d) ==
    /\ now < StartTime + MaxHoverAdvances * 500
    /\ now' = now + d
    /\ UNCHANGED <<currentState, previousState, stateHistory,
                   transitionCallbacks, masterVolume, currentAnimation,
                   currentDirection, lastClickTime, lastCall, allRecords,
                   calls, loopVars, hoverVars>>

NextHover ==
    \/ \E p \in PointerPositions : MouseMove(p[1], p[2])
    \/ \E t \in TouchInputs : TouchMove(t)
    \/ MouseEnter
    \/ MouseLeave
    \/ EnableHover
    \/ DisableHover
    \/ \E c \in CooldownInputs : SetHoverCooldown(c)
    \/ \E t \in ThresholdInputs : SetMovementThreshold(t)
    \/ BackflipTimer
    \/ \E d \in HoverAdvances : HoverAdvanceTime(d)

SpecHover == Init /\ [][NextHover]_vars

\* the auto sleep timer of the controller beside the scheduler, which the
\* page starts, stops and drives by animation frames
NextIdleTimer ==
    \/ \E n \in SystemNames : InitSystem(n)
    \/ StartLoop
    \/ Stop
    \/ \E gap \in StopGaps : LifecycleFrame(gap)
    \/ \E l \in BOOLEAN : AutoSleepTimer(l)

SpecIdleTimer == Init /\ [][NextIdleTimer]_vars

(***************************************************************************)
(* Properties of the state machine under SpecFSM                           *)
(***************************************************************************)
TriggerTokens == TriggerVocabulary \cup TableTriggers

controllerState ==
    <<currentState, previousState, stateHistory, transitionCallbacks,
      masterVolume, currentAnimation, currentDirection, allRecords>>

\* this step is a call of the public method op
IsCall(op) == calls' = calls + 1 /\ lastCall'.op = op

\* C1: a trigger token with no entry in the current state's row is rejected:
\* transitionToState returns false, the state, previous state, history,
\* volume and animation are unchanged and no effect or callback ran.
C1_AbsentTriggerRejected ==
    [][(/\ IsCall("transitionToState")
        /\ currentState \in States
        /\ lastCall'.arg \in TriggerTokens
        /\ lastCall'.arg \notin DOMAIN createStateMachine[currentState])
       => (/\ lastCall'.result = "false"
           /\ lastCall'.trace = <<>>
           /\ UNCHANGED controllerState)]_vars

C1_Witness ==
    /\ lastCall.op = "transitionToState"
    /\ lastCall.from = "sleeping"
    /\ lastCall.arg = "timeout"
    /\ lastCall.result = "false"
    /\ currentState = "sleeping"

\* the positions of the trace whose event is of one of the kinds
Positions(tr, kinds) == {i \in 1..Len(tr) : tr[i].kind \in kinds}

\* C2: a trigger of the current state's row runs, in this order, the exit
\* effects of the old state, the update of previousState/currentState and
\* the push on the history, the entry effects of the new state with the
\* animation request, and the callbacks of the trigger, and returns true.
C2_TransitionOrder ==
    (/\ lastCall.op = "transitionToState"
     /\ lastCall.from \in States
     /\ lastCall.arg \in DOMAIN createStateMachine[lastCall.from])
    =>
    LET tr == lastCall.trace
        from == lastCall.from
        target == createStateMachine[from][lastCall.arg]
        n == Len(allRecords)
        exits == Positions(tr, {"onExit"})
        enters == Positions(tr, {"onEnter"})
        anims == Positions(tr, {"playAnimation"})
        cbs == Positions(tr, {"callback"})
        registered == IF lastCall.arg \in DOMAIN transitionCallbacks
                      THEN transitionCallbacks[lastCall.arg] ELSE <<>>
    IN /\ lastCall.result = "true"
       /\ currentState = target /\ previousState = from
       /\ n > 0 /\ Len(stateHistory) > 0
       /\ stateHistory[Len(stateHistory)] = allRecords[n]
       /\ allRecords[n].from = from /\ allRecords[n].to = target
       /\ allRecords[n].transition = lastCall.arg
       /\ exits = {1} /\ tr[1].arg = from
       /\ Cardinality(enters) = 1 /\ Cardinality(anims) = 1
       /\ \A k \in enters :
            /\ tr[k].arg = target
            /\ \A i \in 1..(k - 1) :
                  /\ tr[i].kind \in {"onExit", "setMasterVolume"}
                  /\ tr[i].cur = from /\ tr[i].pushed = n - 1
            /\ \A i \in k..Len(tr) :
                  /\ tr[i].cur = target /\ tr[i].prev = from
                  /\ tr[i].pushed = n
            /\ \A a \in anims : k < a
       /\ \A c \in cbs : \A i \in 1..Len(tr) : i > c => i \in cbs
       /\ Cardinality(cbs) = Len(registered)
       /\ \A c \in cbs :
            LET i == c - (Len(tr) - Len(registered))
            IN tr[c].arg = <<i, registered[i], from, target, lastCall.arg>>

C2_Witness ==
    /\ lastCall.op = "transitionToState"
    /\ lastCall.from = "sleeping"
    /\ lastCall.arg = "click"
    /\ lastCall.result = "true"
    /\ Cardinality(Positions(lastCall.trace, {"callback"})) = 1
    /\ Cardinality(Positions(lastCall.trace, {"setMasterVolume"})) = 1

\* C6: forceState(x) returns false and changes nothing unless x is one of
\* the eight states; for one of them it sets currentState to x and returns
\* true.
C6_ForceStateRecognizedOnly ==
    [][IsCall("forceState")
       => IF lastCall'.arg \in States
          THEN lastCall'.result = "true" /\ currentState' = lastCall'.arg
          ELSE lastCall'.result = "false" /\ UNCHANGED controllerState]_vars

\* C7: the machine starts in idle and currentState is always one of the
\* eight states, whatever the arguments of transitionToState and forceState.
C7_CurrentStateInClosedSet ==
    /\ currentState \in States
    /\ (calls = 0 => currentState = "idle")

\* the states the table reaches from the states of S in at most n transitions
Successors(s) ==
    {createStateMachine[s][t] : t \in DOMAIN createStateMachine[s]}

RECURSIVE ReachWithin(_, _)
ReachWithin(S, n) ==
    IF n = 0 THEN S
    ELSE ReachWithin(S \cup UNION {Successors(s) : s \in S}, n - 1)

TableReachable == ReachWithin({"idle"}, Cardinality(States))

\* C4: every state the table reaches from idle has a sequence of table
\* triggers, of bounded length, that leads back to idle.
C4_NoLockIn ==
    currentState \in TableReachable
    => "idle" \in ReachWithin({currentState}, Cardinality(States) - 1)

C4_Witness ==
    /\ currentState = "excited"
    /\ lastCall.op = "transitionToState"
    /\ lastCall.result = "true"
    /\ Len(allRecords) = 2

(***************************************************************************)
(* Properties of the history under SpecHistory                             *)
(***************************************************************************)
Min(a, b) == IF a < b THEN a ELSE b

\* C5: the history never holds more than 10 records and is always the most
\* recent successful transitions in insertion order (oldest evicted first),
\* so after 11 transitions the first record is gone.
C5_HistoryBounded ==
    LET n == Len(allRecords)
        k == Len(stateHistory)
    IN /\ k <= 10
       /\ k = Min(n, 10)
       /\ \A i \in 1..k : stateHistory[i] = allRecords[n - k + i]
       /\ n >= 11 => stateHistory[1] = allRecords[n - 9]

C5_Witness ==
    /\ Len(allRecords) = 11
    /\ Len(stateHistory) = 10
    /\ allRecords[1].transition = "hover_east"
    /\ \A i \in 1..Len(stateHistory) : stateHistory[i] # allRecords[1]

(***************************************************************************)
(* Properties of the running system under SpecEvents                       *)
(***************************************************************************)
\* the states one DOM event or timer can move the machine to from state s,
\* whatever the inputs of the event and whether or not a first click of a
\* double click is pending
EventSuccessors(s) ==
    LET starts == {[Machine EXCEPT !.currentState = s, !.lastClickTime = c] :
                     c \in {0, now}}
    IN UNION {
         {clickEvent(m).currentState}
         \cup {animationEndEvent(m, a, c).currentState :
                 a \in AnimationNames, c \in BOOLEAN}
         \cup {animationIterationEvent(m, a, l).currentState :
                 a \in AnimationNames, l \in BOOLEAN}
         \cup {keyDownEvent(m, k).currentState : k \in KeyInputs}
         \cup {autoSleepTimer(m, l).currentState : l \in BOOLEAN}
         : m \in starts}

RECURSIVE EventReach(_, _)
EventReach(S, n) ==
    IF n = 0 THEN S
    ELSE EventReach(S \cup UNION {EventSuccessors(s) : s \in S}, n - 1)

\* C3: from every state the running system reaches, the triggers the system
\* itself raises can bring the machine back to idle.
C3_NeverStranded == "idle" \in EventReach({currentState}, Cardinality(States))

(***************************************************************************)
(* Properties of the scheduler under SpecLoop and SpecFaults               *)
(***************************************************************************)
RanTicks == {i \in 1..Len(ticks) : ticks[i].ran}

\* C8: when no elapsed time exceeded 100 ms, the step never changed and the
\* elapsed times sum to exactly N fixed steps, a subsystem registered from
\* the start has had its update called exactly N times, each with dt equal
\* to the fixed step.
C8_ExactStepCount ==
    \A name \in SystemNames :
       (/\ totals.sinceStart[name]
        /\ ~totals.overLong
        /\ ~totals.stepChanged
        /\ totals.raw % deltaTime = 0)
       => /\ totals.updates[name] * deltaTime = totals.raw
          /\ \A i \in RanTicks :
               \A c \in 1..Len(ticks[i].calls) :
                  ticks[i].calls[c].hook = "update"
                  => ticks[i].calls[c].dt = deltaTime

C8_Witness ==
    /\ totals.sinceStart["character"]
    /\ ~totals.overLong /\ ~totals.stepChanged
    /\ totals.raw = 2 * deltaTime
    /\ totals.updates["character"] = 2
    /\ \E i \in RanTicks : ticks[i].carryIn > 0 /\ ticks[i].simulated > 0

\* C9: one tick adds at most 100 ms to the accumulator, whatever the real
\* time since the previous tick, so it simulates at most 100 ms plus the
\* remainder carried in, and the remainder it leaves is less than one step.
C9_SpiralGuard ==
    \A i \in RanTicks :
       /\ ticks[i].added <= 300
       /\ ticks[i].added <= ticks[i].raw
       /\ ticks[i].simulated <= 300 + ticks[i].carryIn
       /\ ticks[i].carryOut < deltaTime

C9_Witness ==
    \E i \in RanTicks :
       /\ ticks[i].raw = 3000
       /\ ticks[i].added = 300
       /\ ticks[i].carryIn > 0
       /\ ticks[i].simulated = 300

\* the names of the registry, in its order, whose subsystem has the hook
RECURSIVE WithHook(_, _)
WithHook(entries, hook) ==
    IF entries = <<>> THEN <<>>
    ELSE LET has == IF hook = "update" THEN Head(entries).system.update
                    ELSE Head(entries).system.render
             rest == WithHook(Tail(entries), hook)
         IN IF has THEN <<<<Head(entries).name, hook>>>> \o rest ELSE rest

RECURSIVE Repeat(_, _)
Repeat(seq, n) == IF n = 0 THEN <<>> ELSE seq \o Repeat(seq, n - 1)

\* C10: a throwing update does not keep the same subsystem's render, nor
\* any other subsystem's update or render, from being called in the same
\* tick, and the next tick is scheduled and calls them all again.
C10_FaultIsolation ==
    \A i \in RanTicks :
       LET t == ticks[i]
           steps == (t.carryIn + t.added) \div t.step
       IN /\ [c \in 1..Len(t.calls) |-> <<t.calls[c].name, t.calls[c].hook>>]
             = Repeat(WithHook(systems, "update"), steps)
               \o WithHook(systems, "render")
          /\ t.rescheduled
          /\ pendingFrames >= 1

C10_Witness ==
    \E i \in RanTicks :
       LET t == ticks[i]
       IN /\ t.afterThrow
          /\ Len(WithHook(systems, "update")) = 2
          /\ Len(WithHook(systems, "render")) = 2
          /\ \E c \in 1..Len(t.calls) :
                /\ t.calls[c].hook = "update" /\ t.calls[c].threw
                /\ t.calls[c].name = systems[1].name
          /\ t.simulated > 0

(***************************************************************************)
(* Properties of the scheduler's life cycle and registry                   *)
(***************************************************************************)
\* the entries of a tick's call log that are calls of the hook
CallsOf(t, hook) == SelectSeq(t.calls, LAMBDA c : c.hook = hook)

\* the names of the registry, in its order, whose subsystem has an update
Updaters(entries) ==
    LET with == SelectSeq(entries, LAMBDA e : e.system.update)
    IN [j \in 1..Len(with) |-> with[j].name]

\* the names of the registry, in its order, whose subsystem has a render
Renderers(entries) ==
    LET with == SelectSeq(entries, LAMBDA e : e.system.render)
    IN [j \in 1..Len(with) |-> with[j].name]

\* the number of fixed steps a tick had to drain
StepsOf(t) == (t.carryIn + t.added) \div t.step

\* C11: whatever is registered (both hooks, one, none, hooks that throw),
\* every tick of a running scheduler ends by scheduling the next tick, so a
\* running scheduler always has a tick pending.
C11_TickAlwaysReschedules ==
    /\ \A i \in RanTicks : ticks[i].rescheduled
    /\ isRunning => pendingFrames >= 1
    /\ RanTicks # {} => pendingFrames = Cardinality(RanTicks)

C11_Witness ==
    /\ isRunning /\ pendingFrames = 1
    /\ \E e \in 1..Len(systems) :
          ~systems[e].system.update /\ ~systems[e].system.render
    /\ \E e \in 1..Len(systems) :
          ~systems[e].system.update /\ systems[e].system.render
    /\ \E i \in RanTicks :
          /\ StepsOf(ticks[i]) > 0
          /\ \E c \in 1..Len(ticks[i].calls) :
                ticks[i].calls[c].hook = "render" /\ ticks[i].calls[c].threw

\* C12: in one tick every update call of every drained step comes before
\* every render call; each subsystem that has a render has it called exactly
\* once, also when no step was drained; updates (step by step) and renders
\* visit the subsystems in the order of the registry.
C12_UpdateBeforeRender ==
    \A i \in RanTicks :
       LET t == ticks[i]
           ups == CallsOf(t, "update")
           rens == CallsOf(t, "render")
           U == Updaters(systems)
       IN /\ \A a, b \in 1..Len(t.calls) :
                (t.calls[a].hook = "render" /\ t.calls[b].hook = "update")
                => b < a
          /\ [j \in 1..Len(rens) |-> rens[j].name] = Renderers(systems)
          /\ Len(ups) = StepsOf(t) * Len(U)
          /\ \A j \in 1..Len(ups) : ups[j].name = U[((j - 1) % Len(U)) + 1]

C12_Witness ==
    /\ Len(systems) = 2
    /\ systems[1].name = "cursor"
    /\ \A e \in 1..2 : systems[e].system.update /\ systems[e].system.render
    /\ \E i \in RanTicks :
          /\ StepsOf(ticks[i]) >= 2
          /\ Len(ticks[i].calls) = 2 * StepsOf(ticks[i]) + 2

\* C13: once stop() has been called (and start() not called since), the
\* ticks of the next animation frame call no update and no render, change
\* nothing and schedule nothing; a tick during which an update hook calls
\* stop() still drains all its steps, renders and leaves less than one step.
C13_StopIsCooperative ==
    [][frames' = frames + 1
       => /\ totals.stopped
             => /\ Len(ticks') = pendingFrames
                /\ \A i \in 1..Len(ticks') : ticks'[i] = [ran |-> FALSE]
                /\ pendingFrames' = 0
                /\ ~isRunning'
                /\ UNCHANGED <<accumulator, lastTime, frameCount, fps,
                               lastFpsUpdate, deltaTime, systems, totals>>
          /\ (~totals.stopped /\ totals'.stoppedInFlight)
             => \A i \in 1..Len(ticks') :
                   ticks'[i].ran
                   => /\ Len(CallsOf(ticks'[i], "update"))
                           = StepsOf(ticks'[i]) * Len(Updaters(systems))
                      /\ Len(CallsOf(ticks'[i], "render"))
                           = Len(Renderers(systems))
                      /\ ticks'[i].carryOut < ticks'[i].step
                      /\ ~isRunning']_vars

C13_Witness ==
    /\ totals.stoppedInFlight
    /\ ~isRunning
    /\ pendingFrames = 0
    /\ ticks = <<[ran |-> FALSE]>>
    /\ totals.updates["cursor"] >= 2
    /\ totals.updates["character"] = totals.updates["cursor"]

\* C14: start() on a running scheduler changes nothing and starts no second
\* cycle of ticks; start() on a stopped scheduler marks it running, resets
\* frameCount and the start of the FPS window, and runs the first tick, which
\* schedules the next.
C14_StartIdempotent ==
    [][StartCall
       => IF isRunning
          THEN UNCHANGED <<isRunning, lastTime, frameCount, fps, lastFpsUpdate,
                           accumulator, deltaTime, systems, pendingFrames,
                           totals>>
          ELSE /\ isRunning'
               /\ lastTime' = perfNow
               /\ lastFpsUpdate' = perfNow
               /\ frameCount' = 1
               /\ pendingFrames' = pendingFrames + 1
               /\ Len(ticks') = 1 /\ ticks'[1].ran
               /\ UNCHANGED <<deltaTime, systems>>]_vars

C14_Witness ==
    /\ ticks = <<[ran |-> FALSE, warning |-> "already running"]>>
    /\ isRunning
    /\ pendingFrames = 1
    /\ frameCount >= 2
    /\ accumulator > 0
    /\ lastTime > lastFpsUpdate

\* C15: setFPS(f) sets the fixed step to 1000/f and leaves the accumulator,
\* the running flag, the registry and lastTime as they were; every update of
\* a later tick is called with the step then in force.
C15_SetFPSOnlyStep ==
    [][/\ \A f \in {MOBILE_FPS, DESKTOP_FPS} :
             SetFPS(f)
             => /\ deltaTime' = FixedStep(f)
                /\ UNCHANGED <<accumulator, isRunning, systems, lastTime,
                               frameCount, lastFpsUpdate, pendingFrames>>
       /\ frames' = frames + 1
          => \A i \in 1..Len(ticks') :
                ticks'[i].ran
                => /\ ticks'[i].step = deltaTime
                   /\ \A c \in 1..Len(ticks'[i].calls) :
                         ticks'[i].calls[c].hook = "update"
                         => ticks'[i].calls[c].dt = deltaTime
                   /\ ticks'[i].simulated
                        = StepsOf(ticks'[i]) * deltaTime]_vars

C15_Witness ==
    /\ supportedFPS = DESKTOP_FPS
    /\ deltaTime = FixedStep(MOBILE_FPS)
    /\ totals.stepChanged
    /\ \E i \in RanTicks :
          /\ ticks[i].carryIn = 20
          /\ ticks[i].added = 80
          /\ ticks[i].simulated = FixedStep(MOBILE_FPS)
          /\ \E c \in 1..Len(ticks[i].calls) :
                /\ ticks[i].calls[c].hook = "update"
                /\ ticks[i].calls[c].dt = FixedStep(MOBILE_FPS)

\* the entry of the registry under the name, as a set
EntriesOf(entries, name) ==
    {entries[e].system : e \in {x \in 1..Len(entries) : entries[x].name = name}}

\* C16: the hooks a tick calls are those of the current registry: after
\* registerSystem(n, b) the registry holds exactly b under n, after
\* unregisterSystem(n) it holds nothing under n, both leave the other
\* entries alone, unregistering an unknown name changes nothing, and a tick
\* calls each update of the registry once per step, each render once, and
\* no hook that is not in the registry.
C16_RegistryDecidesCalls ==
    [][/\ \A n \in SystemNames :
             UnregisterSystem(n)
             => /\ EntriesOf(systems', n) = {}
                /\ \A o \in SystemNames \ {n} :
                      EntriesOf(systems', o) = EntriesOf(systems, o)
                /\ EntriesOf(systems, n) = {} => systems' = systems
                /\ UNCHANGED <<isRunning, accumulator, pendingFrames>>
       /\ \A n \in SystemNames, b \in SystemKinds :
             RegisterSystem(n, b)
             => /\ EntriesOf(systems', n) = {b}
                /\ Len(systems') = Cardinality({systems'[e].name :
                                                  e \in 1..Len(systems')})
                /\ \A o \in SystemNames \ {n} :
                      EntriesOf(systems', o) = EntriesOf(systems, o)
       /\ frames' = frames + 1
          => \A i \in 1..Len(ticks') :
                ticks'[i].ran
                => \A n \in SystemNames :
                      LET t == ticks'[i]
                          has(h) == \E b \in EntriesOf(systems, n) :
                                       IF h = "update" THEN b.update
                                       ELSE b.render
                          count(h) == Cardinality(
                              {c \in 1..Len(t.calls) :
                                 t.calls[c].name = n /\ t.calls[c].hook = h})
                      IN /\ count("update")
                              = IF has("update") THEN StepsOf(t) ELSE 0
                         /\ count("render")
                              = IF has("render") THEN 1 ELSE 0]_vars

C16_Witness ==
    /\ totals.updates["character"] > 0
    /\ EntriesOf(systems, "character") = {[update |-> FALSE, render |-> TRUE]}
    /\ EntriesOf(systems, "cursor") = {}
    /\ \E i \in RanTicks :
          /\ StepsOf(ticks[i]) > 0
          /\ Len(ticks[i].calls) = 1
          /\ ticks[i].calls[1].hook = "render"

(***************************************************************************)
(* Properties of the transition's side effects                             *)
(***************************************************************************)
\* the last call was transitionToState with a key of the row of the state
\* it was made in
ValidTransitionCall ==
    /\ lastCall.op = "transitionToState"
    /\ lastCall.from \in States
    /\ lastCall.arg \in DOMAIN createStateMachine[lastCall.from]

\* the last call has moved the machine to the row's target and recorded it
TransitionCompleted ==
    LET target == createStateMachine[lastCall.from][lastCall.arg]
        n == Len(allRecords)
    IN /\ currentState = target
       /\ previousState = lastCall.from
       /\ n > 0
       /\ allRecords[n].from = lastCall.from
       /\ allRecords[n].to = target
       /\ allRecords[n].transition = lastCall.arg
       /\ stateHistory # <<>>
       /\ stateHistory[Len(stateHistory)] = allRecords[n]

\* C17: when a callback registered for the trigger throws, the transition
\* still has updated the state and the history, every callback registered
\* for the trigger (also those after the one that throws) has been invoked,
\* in order, and transitionToState returns true.
C17_CallbackIsolation ==
    (/\ ValidTransitionCall
     /\ lastCall.arg \in DOMAIN transitionCallbacks
     /\ \E i \in 1..Len(transitionCallbacks[lastCall.arg]) :
           transitionCallbacks[lastCall.arg][i] = "throws")
    => LET registered == transitionCallbacks[lastCall.arg]
           invoked == SelectSeq(lastCall.trace, LAMBDA e : e.kind = "callback")
       IN /\ lastCall.result = "true"
          /\ TransitionCompleted
          /\ [i \in 1..Len(invoked) |-> invoked[i].arg[2]] = registered
          /\ \A i \in 1..Len(invoked) : invoked[i].arg[1] = i

C17_Witness ==
    /\ ValidTransitionCall
    /\ lastCall.arg = "click"
    /\ "click" \in DOMAIN transitionCallbacks
    /\ transitionCallbacks["click"] = <<"throws", "returns">>
    /\ Len(SelectSeq(lastCall.trace, LAMBDA e : e.kind = "callback")) = 2
    /\ lastCall.result = "true"
    /\ currentState = "crouching"

\* C18: when the audio or the character collaborator throws during the exit
\* or entry effect of a transition, the transition still updates
\* currentState, previousState and the history, invokes the callbacks of
\* the trigger and returns true.
C18_CollaboratorIsolation ==
    (/\ ValidTransitionCall
     /\ \E i \in 1..Len(lastCall.trace) : lastCall.trace[i].kind = "throw")
    => LET registered == IF lastCall.arg \in DOMAIN transitionCallbacks
                         THEN transitionCallbacks[lastCall.arg] ELSE <<>>
           invoked == SelectSeq(lastCall.trace, LAMBDA e : e.kind = "callback")
       IN /\ lastCall.result = "true"
          /\ TransitionCompleted
          /\ Len(invoked) = Len(registered)

\* the positions of the trace that are the event
Occurrences(tr, kind, arg) ==
    {i \in 1..Len(tr) : tr[i].kind = kind /\ tr[i].arg = arg}

\* C19: a transition that enters sleeping sets the master volume to 0.3, a
\* transition that leaves sleeping sets it to 0.7 whatever it was, and the
\* sound sfx-glitch is requested once by a transition that enters alert
\* and by no other transition.
C19_AudioEffects ==
    (ValidTransitionCall /\ lastCall.result = "true")
    => /\ currentState = "sleeping"
          => /\ masterVolume = 3
             /\ Occurrences(lastCall.trace, "setMasterVolume", 3) # {}
       /\ lastCall.from = "sleeping"
          => /\ masterVolume = 7
             /\ Occurrences(lastCall.trace, "setMasterVolume", 7) # {}
       /\ Cardinality(Occurrences(lastCall.trace, "playSound", "sfx-glitch"))
            = IF currentState = "alert" THEN 1 ELSE 0
       /\ (currentState # "sleeping" /\ lastCall.from # "sleeping")
          => Positions(lastCall.trace, {"setMasterVolume"}) = {}

C19_Witness ==
    /\ ValidTransitionCall
    /\ lastCall.from = "sleeping"
    /\ lastCall.arg = "wake_up"
    /\ lastCall.result = "true"
    /\ masterVolume = 7
    /\ currentState = "idle"

\* the states the table reaches from the states of S in at most n
\* transitions whose trigger is a token of the vocabulary
VocabularySuccessors(s) ==
    {createStateMachine[s][t] :
       t \in DOMAIN createStateMachine[s] \cap TriggerVocabulary}

RECURSIVE VocabularyReach(_, _)
VocabularyReach(S, n) ==
    IF n = 0 THEN S
    ELSE VocabularyReach(S \cup UNION {VocabularySuccessors(s) : s \in S},
                         n - 1)

\* C20: every key of the transition table and every trigger the running
\* system raises is one of the 14 tokens of the vocabulary, and each of
\* the eight states can be entered from idle by vocabulary tokens only.
C20_VocabularyClosed ==
    /\ TableTriggers \subseteq TriggerVocabulary
    /\ \A i \in 1..Len(allRecords) :
          allRecords[i].transition \in TriggerVocabulary
    /\ States \subseteq VocabularyReach({"idle"}, Cardinality(States))

(***************************************************************************)
(* Shape of the transition table and end-to-end runs, under SpecFSM        *)
(***************************************************************************)
\* t is reached from every other state by at most n transitions of the table
HubWithin(t, n) == \A s \in States \ {t} : t \in ReachWithin({s}, n)

\* C21: idle is reachable from every other state in at most 2 transitions
\* of the table, and no other state, so none the machine can be in, is
\* reachable from every other state in at most 2 transitions.
C21_IdleOnlyHubWithinTwo ==
    /\ HubWithin("idle", 2)
    /\ currentState \in States \ {"idle"} => ~HubWithin(currentState, 2)

\* C21 (amended): idle is reachable from every other state by one
\* transition of the table, which transitionToState performs from whatever
\* other state the machine is in, and no other state is reachable from
\* every other state by one transition.
C21_IdleOnlyDirectHub ==
    /\ HubWithin("idle", 1)
    /\ \A t \in States : HubWithin(t, 1) => t = "idle"
    /\ currentState \in States \ {"idle"}
       => \E t \in DOMAIN createStateMachine[currentState] :
             LET m == transitionToState(Machine, t, Null)
             IN m.result = "true" /\ m.currentState = "idle"

C21_Witness ==
    /\ currentState = "alert"
    /\ lastCall.op = "transitionToState"
    /\ lastCall.from = "crouching"
    /\ lastCall.result = "true"

\* the first two calls on a fresh controller
FirstRecord ==
    [from |-> "idle", to |-> "crouching", transition |-> "click",
     timestamp |-> now]

SecondRecord ==
    [from |-> "crouching", to |-> "idle", transition |-> "complete",
     timestamp |-> now]

\* C28: on a fresh machine in idle, click makes the state crouching and a
\* following complete makes it idle again; the history then holds exactly
\* the records idle -> crouching via click and crouching -> idle via
\* complete, in that order, and previousState is crouching.
C28_ClickCompleteScenario ==
    [][/\ (calls = 0 /\ IsCall("transitionToState") /\ lastCall'.arg = "click")
          => /\ currentState' = "crouching"
             /\ stateHistory' = <<FirstRecord>>
       /\ (/\ calls = 1 /\ lastCall.op = "transitionToState"
           /\ lastCall.arg = "click"
           /\ IsCall("transitionToState") /\ lastCall'.arg = "complete")
          => /\ currentState' = "idle"
             /\ previousState' = "crouching"
             /\ stateHistory' = <<FirstRecord, SecondRecord>>]_vars

C28_Witness ==
    /\ calls = 2
    /\ lastCall.op = "transitionToState"
    /\ lastCall.arg = "complete"
    /\ lastCall.from = "crouching"
    /\ Len(stateHistory) = 2
    /\ stateHistory[1].transition = "click"
    /\ currentState = "idle"

BackflipStates == {"backflip_east", "backflip_west"}

\* C29: from idle, hover_east leads to backflip_east and hover_west to
\* backflip_west; from either backflip state interrupt and complete lead to
\* idle, and every other trigger token leaves the state as it is.
C29_BackflipRoundTrip ==
    [][IsCall("transitionToState") =>
         /\ (currentState = "idle" /\ lastCall'.arg = "hover_east")
            => currentState' = "backflip_east"
         /\ (currentState = "idle" /\ lastCall'.arg = "hover_west")
            => currentState' = "backflip_west"
         /\ (currentState \in BackflipStates
             /\ lastCall'.arg \in {"interrupt", "complete"})
            => currentState' = "idle"
         /\ (currentState \in BackflipStates
             /\ lastCall'.arg \in TriggerTokens \ {"interrupt", "complete"})
            => /\ currentState' = currentState
               /\ lastCall'.result = "false"]_vars

C29_Witness ==
    /\ lastCall.op = "transitionToState"
    /\ lastCall.from = "backflip_west"
    /\ lastCall.arg = "interrupt"
    /\ lastCall.result = "true"
    /\ currentState = "idle"
    /\ Len(allRecords) = 2

(***************************************************************************)
(* Properties of the direction classifier under SpecDirection              *)
(***************************************************************************)
\* the quadrant of the vector (dx, dy) with y growing downwards, told by
\* the signs and the sizes of its components; each quadrant holds its
\* lower bounding diagonal and not its upper one
Quadrant(dx, dy) ==
    IF dx = 0 /\ dy = 0 THEN "east"
    ELSE IF dx > 0 /\ -dx <= dy /\ dy < dx THEN "east"
    ELSE IF dy > 0 /\ -dy < dx /\ dx <= dy THEN "south"
    ELSE IF dx < 0 /\ dx < dy /\ dy <= -dx THEN "west"
    ELSE "north"

\* C30: getMouseDirection answers one of the four directions for every
\* pair of points, by half-open quadrants of the angle: exactly 45 degrees
\* is south, 135 west, -135 north and -45 east, a zero-length vector is
\* east, (100,100) -> (200,100) is east and (100,100) -> (100,200) south.
C30_DirectionQuadrants ==
    classified.done =>
      LET dx == classified.endX - classified.startX
          dy == classified.endY - classified.startY
          d == classified.direction
      IN /\ d \in {"east", "south", "west", "north"}
         /\ d = Quadrant(dx, dy)
         /\ (dx > 0 /\ dy = dx) => d = "south"
         /\ (dx < 0 /\ dy = -dx) => d = "west"
         /\ (dx < 0 /\ dy = dx) => d = "north"
         /\ (dx > 0 /\ dy = -dx) => d = "east"
         /\ (dx = 0 /\ dy = 0) => d = "east"
         /\ (/\ classified.startX = 100 /\ classified.startY = 100
             /\ classified.endX = 200 /\ classified.endY = 100)
            => d = "east"
         /\ (/\ classified.startX = 100 /\ classified.startY = 100
             /\ classified.endX = 100 /\ classified.endY = 200)
            => d = "south"

C30_Witness ==
    /\ classified.done
    /\ classified.startX = 100 /\ classified.startY = 100
    /\ classified.endX = 200 /\ classified.endY = 200
    /\ classified.direction = "south"

(***************************************************************************)
(* Properties of the hover detector under SpecHover                        *)
(***************************************************************************)
\* this step is the handling of a move event
IsMove == moves' = moves + 1

\* this step called playBackflip
Backflipped == accepted'.count = accepted.count + 1

\* the position of the move event of this step
MovedTo ==
    IF lastCall'.op = "mousemove" THEN lastCall'.arg
    ELSE IF Len(lastCall'.arg) > 0 THEN lastCall'.arg[1]
    ELSE <<lastMouseX, lastMouseY>>

\* the direction of this step's move as seen from the point (x, y)
DirectionFrom(x, y) == getMouseDirection(x, y, MovedTo[1], MovedTo[2])

Far(x, y, threshold) ==
    LET dx == MovedTo[1] - x
        dy == MovedTo[2] - y
    IN dx * dx + dy * dy > threshold * threshold

\* C22: an accepted move classified east or west raises hover_east or
\* hover_west through transitionToState: with the machine in idle the
\* state becomes backflip_east or backflip_west and a history record of
\* that transition is appended.
C22_HoverRaisesTransition ==
    [][(IsMove /\ Backflipped /\ currentState = "idle") =>
         LET direction == DirectionFrom(lastMouseX, lastMouseY)
         IN /\ currentState' = IF direction = "east" THEN "backflip_east"
                               ELSE "backflip_west"
            /\ Len(allRecords') = Len(allRecords) + 1
            /\ allRecords'[Len(allRecords')].transition =
                 IF direction = "east" THEN "hover_east" ELSE "hover_west"
            /\ allRecords'[Len(allRecords')].from = "idle"]_vars

\* C23: a move starts a backflip only if hover is enabled, at least
\* hoverCooldown ms have passed since the last move that started one, the
\* pointer is farther than movementThreshold from the reference position
\* and getMouseDirection answers east or west; so a move classified north
\* or south, or made while hover is disabled, never starts one.
C23_HoverTriggerGuards ==
    [][(IsMove /\ Backflipped) =>
         /\ hoverEnabled
         /\ accepted.count > 0 => now - accepted.time >= hoverCooldown
         /\ Far(lastMouseX, lastMouseY, movementThreshold)
         /\ DirectionFrom(lastMouseX, lastMouseY) \in {"east", "west"}
         /\ \E i \in 1..Len(lastCall'.trace) :
              /\ lastCall'.trace[i].kind = "playAnimation"
              /\ lastCall'.trace[i].arg =
                   <<"backflip", DirectionFrom(lastMouseX, lastMouseY)>>]_vars

C23_Witness ==
    /\ accepted.count = 2
    /\ accepted.time = now
    /\ lastCall.op = "mousemove"
    /\ currentAnimation = "backflip"
    /\ currentDirection = "west"

\* the position of the last move that started a backflip, the origin of
\* the constructor before there is one
AcceptedX == IF accepted.count = 0 THEN 0 ELSE accepted.x

AcceptedY == IF accepted.count = 0 THEN 0 ELSE accepted.y

\* C24: the displacement of a move is measured from the position of the
\* last accepted move: the reference position changes only in a step that
\* accepts a move, so a move that is far enough east or west of that
\* position, however many small moves led there, is accepted when hover
\* is on, the cooldown is over and the character is idle.
C24_ReferenceIsLastAccepted ==
    [][IsMove =>
         /\ (lastMouseX' # lastMouseX \/ lastMouseY' # lastMouseY)
            => Backflipped
         /\ (/\ hoverEnabled
             /\ lastCall'.arg # <<>>
             /\ now - lastTriggerTime >= hoverCooldown
             /\ currentAnimation = "idle"
             /\ Far(AcceptedX, AcceptedY, movementThreshold)
             /\ DirectionFrom(AcceptedX, AcceptedY) \in {"east", "west"})
            => Backflipped]_vars

\* C27: the cooldown starts at 1000 ms and the threshold at 50 px, and
\* whatever numbers setHoverCooldown and setMovementThreshold are called
\* with, the cooldown is never below 100 and the threshold never below 10.
C27_SetterFloors ==
    /\ hoverCooldown = 1000 /\ movementThreshold = 50
    /\ [][hoverCooldown' >= 100 /\ movementThreshold' >= 10]_vars

C27_Witness ==
    /\ hoverCooldown = 100
    /\ movementThreshold = 10
    /\ accepted.count > 0

(***************************************************************************)
(* Properties of clicks and of the idle timeout                            *)
(***************************************************************************)
\* this step pushed a record of the transition t
Pushed(t) ==
    /\ Len(allRecords') = Len(allRecords) + 1
    /\ allRecords'[Len(allRecords')].transition = t

\* this step handles a click and the event handled before it was a click
ConsecutiveClicks == lastCall.op = "click" /\ lastCall'.op = "click"

\* C25: of two consecutive clicks less than 300 ms apart the second raises
\* double_click, so that a click in idle followed by such a click leads
\* idle -> crouching -> excited; of two consecutive clicks 300 ms or more
\* apart the second does not raise double_click.
C25_DoubleClickWindow ==
    [][/\ (/\ ConsecutiveClicks
           /\ lastCall.from = "idle"
           /\ lastCall.result = "true"
           /\ currentState = "crouching"
           /\ lastCall'.from = "crouching"
           /\ lastCall'.arg - lastCall.arg < DoubleClickWindow)
          => currentState' = "excited" /\ Pushed("double_click")
       /\ (ConsecutiveClicks /\ Pushed("double_click"))
          => lastCall'.arg - lastCall.arg < DoubleClickWindow]_vars

\* C26: timeout is raised only in idle and only by a fixed tick of the
\* scheduler: a step that makes the transition timeout is an animation
\* frame of the running scheduler that ran a tick, so that the machine
\* never goes from idle to sleeping while the scheduler is stopped.
C26_TimeoutOnlyOnTick ==
    [][Pushed("timeout") =>
         /\ currentState = "idle"
         /\ isRunning
         /\ frames' = frames + 1
         /\ RanTicks' # {}]_vars

\* this step's move passed the enabled and the cooldown check
PassedCooldown ==
    /\ IsMove
    /\ hoverEnabled
    /\ lastCall'.arg # <<>>
    /\ now - lastTriggerTime >= hoverCooldown

\* C40: every move that passes the cooldown check farther than the
\* threshold from the reference position restarts the cooldown, also one
\* classified north or south or made while the character is not idle,
\* which starts no backflip; no move starts a backflip within
\* hoverCooldown ms of such a move; mouse and touch moves read and write
\* the same cooldown timestamp and the same reference position.
C40_CooldownRestartedByFarMoves ==
    [][IsMove =>
         /\ (PassedCooldown /\ Far(lastMouseX, lastMouseY, movementThreshold))
            => lastTriggerTime' = now
         /\ (/\ PassedCooldown
             /\ Far(lastMouseX, lastMouseY, movementThreshold)
             /\ \/ DirectionFrom(lastMouseX, lastMouseY) \in {"north", "south"}
                \/ currentAnimation # "idle")
            => ~Backflipped /\ lastCall'.trace = <<>>
         /\ Backflipped => now - lastTriggerTime >= hoverCooldown
         /\ PassedCooldown
            => lastMouseX' = MovedTo[1] /\ lastMouseY' = MovedTo[2]
         /\ ~PassedCooldown
            => /\ lastTriggerTime' = lastTriggerTime
               /\ lastMouseX' = lastMouseX /\ lastMouseY' = lastMouseY]_vars

\* a mouse move south restarted the cooldown and a touch move east, made
\* at once, was dropped
C40_Witness ==
    /\ moves = 2
    /\ lastCall.op = "touchmove"
    /\ lastCall.arg = <<<<60, 0>>>>
    /\ lastCall.trace = <<>>
    /\ lastMouseX = 0 /\ lastMouseY = 60
    /\ lastTriggerTime = now
    /\ accepted.count = 0
    /\ hoverEnabled
    /\ currentAnimation = "idle"

(***************************************************************************)
(* Properties of forceState and of the history under SpecFSM               *)
(***************************************************************************)
\* the effects a call may have besides requesting an animation, whose
\* sound the character plays itself
TransitionEffects ==
    {"onExit", "onEnter", "callback", "setMasterVolume", "throw"}

\* C37: forceState(x) for a state x of the table sets currentState to x
\* and requests the animation of x, and nothing else: previousState, the
\* history and the master volume are unchanged and no exit or entry
\* effect and no callback runs, also when x or the state left is sleeping.
C37_ForceStateFrame ==
    [][(IsCall("forceState") /\ lastCall'.arg \in States) =>
         LET parts == Split(lastCall'.arg)
             tr == lastCall'.trace
         IN /\ lastCall'.result = "true"
            /\ currentState' = lastCall'.arg
            /\ previousState' = previousState
            /\ stateHistory' = stateHistory
            /\ allRecords' = allRecords
            /\ masterVolume' = masterVolume
            /\ transitionCallbacks' = transitionCallbacks
            /\ Positions(tr, TransitionEffects) = {}
            /\ Len(tr) >= 1
            /\ tr[1].kind = "playAnimation"
            /\ tr[1].arg = <<parts[1],
                             IF Len(parts) > 1 THEN parts[2] ELSE "east">>
            /\ currentAnimation' = parts[1]]_vars

\* the machine was forced out of sleeping and the volume is still reduced
C37_Witness ==
    /\ lastCall.op = "forceState"
    /\ lastCall.from = "sleeping"
    /\ lastCall.arg = "idle"
    /\ lastCall.result = "true"
    /\ currentState = "idle"
    /\ previousState = "idle"
    /\ masterVolume = SleepVolume
    /\ Len(stateHistory) = 1

\* consecutive records of the history h join
Connected(h) == \A i \in 1..(Len(h) - 1) : h[i].to = h[i + 1].from

\* the newest record of the history, if there is one, is the step that
\* led to the present state
EndsAtPresent ==
    stateHistory # <<>>
    => /\ stateHistory[Len(stateHistory)].to = currentState
       /\ stateHistory[Len(stateHistory)].from = previousState

\* C38: after any sequence of transitionToState and forceState calls the
\* consecutive records of the history join, and the newest record, if
\* any, has to = currentState and from = previousState.
C38_HistoryConnected == Connected(stateHistory) /\ EndsAtPresent

\* C38 (amended): the history of a fresh machine is a connected path
\* ending at the present, and every call of transitionToState made on
\* such a history leaves such a history; forceState adds no record.
C38_TransitionsKeepHistoryConnected ==
    /\ Connected(stateHistory) /\ EndsAtPresent
    /\ [][/\ (/\ IsCall("transitionToState")
              /\ Connected(stateHistory) /\ EndsAtPresent)
             => Connected(stateHistory') /\ EndsAtPresent'
          /\ IsCall("forceState") => stateHistory' = stateHistory]_vars

C38_Witness ==
    /\ calls = 3
    /\ lastCall.op = "transitionToState"
    /\ lastCall.result = "true"
    /\ Len(stateHistory) = 3
    /\ stateHistory[2].to = "idle"
    /\ stateHistory[3].from = "idle"
    /\ currentState = "sleeping"
    /\ previousState = "idle"

(***************************************************************************)
(* Agreement of the character with the machine under SpecEvents            *)
(***************************************************************************)
\* the character shows the animation of the machine's state s; the
\* animation crouch of a click counts as that of crouching
ShowsState(s) ==
    LET parts == Split(s)
    IN /\ \/ currentAnimation = parts[1]
          \/ s = "crouching" /\ currentAnimation = "crouch"
       /\ Len(parts) > 1 => currentDirection = parts[2]

\* C36: after every event the animation of the character is that of the
\* machine's state: idle if and only if the machine is in idle, backflip
\* with the direction of the backflip state, and so on.
C36_AnimationAgreesWithState ==
    currentState \in States
    => /\ ShowsState(currentState)
       /\ currentAnimation = "idle" => currentState = "idle"

(***************************************************************************)
(* Time that passes while the loop is stopped, under SpecLifecycle         *)
(***************************************************************************)
\* a start() call that finds the loop stopped
StartsStopped == ~isRunning /\ isRunning' /\ frames' = frames

\* the first callback of the step's animation frame that ran a tick
FirstRanTick == CHOOSE i \in RanTicks' : \A j \in RanTicks' : i <= j

\* C35: time that passes while the loop is stopped is never simulated: a
\* start() of a stopped loop measures from its own time (its tick has
\* elapsed time 0 and adds nothing), the remainder in the accumulator is
\* carried over unchanged, and every later tick measures the time since
\* the start() or the tick before it.
C35_PausedTimeNotSimulated ==
    [][/\ StartsStopped
          => /\ lastTime' = perfNow
             /\ Len(ticks') = 1
             /\ ticks'[1].ran
             /\ ticks'[1].raw = 0
             /\ ticks'[1].added = 0
             /\ ticks'[1].carryIn = accumulator
             /\ accumulator < deltaTime
                => /\ ticks'[1].simulated = 0
                   /\ accumulator' = accumulator
       /\ (frames' = frames + 1 /\ RanTicks' # {})
          => /\ isRunning
             /\ \A i \in RanTicks' :
                   ticks'[i].raw =
                       IF i = FirstRanTick THEN perfNow' - lastTime ELSE 0
             /\ ticks'[FirstRanTick].carryIn = accumulator]_vars

\* start() 380 ms after the page's start(): a tick of 80 ms left 30 ms in
\* the accumulator, stop() was called and 300 ms passed while stopped
C35_Witness ==
    /\ isRunning
    /\ frames = 2
    /\ perfNow = LoadTime + 380
    /\ lastTime = perfNow
    /\ Len(ticks) = 1
    /\ ticks[1].ran
    /\ ticks[1].raw = 0
    /\ ticks[1].simulated = 0
    /\ accumulator = 30
    /\ totals.raw = 80

(***************************************************************************)
(* Chains of ticks under SpecChains                                        *)
(***************************************************************************)
\* C31: whatever the interleaving of start(), stop() and pending animation
\* frame callbacks, at most one next-tick callback is pending, and an
\* animation frame runs at most one tick.
C31_AtMostOneChain ==
    /\ pendingFrames <= 1
    /\ Cardinality(RanTicks) <= 1

(***************************************************************************)
(* The accumulator under SpecHooks                                         *)
(***************************************************************************)
\* C32: after every completed tick the accumulator is at least 0 and below
\* the fixed step then in force, whatever setFPS() calls happen between
\* ticks or from inside a subsystem's hook.
C32_AccumulatorBelowStep ==
    \A i \in RanTicks :
        i = Len(ticks) => 0 <= accumulator /\ accumulator < deltaTime

\* C33: simulated time is conserved: in every tick the time passed to
\* update() plus the accumulator left equals the accumulator found plus
\* the clamped elapsed time added.
C33_TimeConserved ==
    \A i \in RanTicks :
        ticks[i].simulated + ticks[i].carryOut
            = ticks[i].carryIn + ticks[i].added

(***************************************************************************)
(* Termination of a tick under SpecDrain                                   *)
(***************************************************************************)
\* a pass of the body of gameLoop's while loop
DrainsStep ==
    tickPc.active /\ tickPc'.active /\ tickPc'.steps = tickPc.steps + 1

\* C34: every tick terminates, whatever value setFPS() was given (also 0
\* and negative values): every pass of the while loop leaves an accumulator
\* that is smaller than before and not negative, so the loop's test fails
\* after finitely many passes.
C34_EveryTickTerminates ==
    [][DrainsStep => 0 <= accumulator' /\ accumulator' < accumulator]_vars

(***************************************************************************)
(* Callbacks that call transitionToState, under SpecNesting                *)
(***************************************************************************)
\* the record of the transition that the step's call made itself
OwnRecord == allRecords'[Len(allRecords) + 1]

\* the calls of the callbacks of trigger t in the step's call, in order
CallbackCalls(t) ==
    SelectSeq(lastCall'.trace,
              LAMBDA e : e.kind = "callback" /\ e.arg[5] = t)

\* C39: in a successful transition on t every callback registered for t is
\* called exactly once, in registration order, with the from, to and
\* trigger of that transition's own history record, also when a callback
\* calls transitionToState itself before the remaining callbacks run.
C39_CallbacksGetOwnRecord ==
    [][(/\ IsCall("transitionToState")
        /\ lastCall'.result = "true"
        /\ lastCall'.arg \in DOMAIN transitionCallbacks)
       => LET t == lastCall'.arg
              registered == transitionCallbacks[t]
              made == CallbackCalls(t)
          IN /\ Len(made) = Len(registered)
             /\ \A k \in 1..Len(made) :
                   made[k].arg = <<k, registered[k], OwnRecord.from,
                                   OwnRecord.to, OwnRecord.transition>>]_vars

====
